---- MODULE Spec2Model ----
(***************************************************************************)
(* SEO-Intel-Engine: the spreadsheet side of the tool.                     *)
(*                                                                         *)
(* The model follows services/sheetsService.ts (fetchTopicAndUrl,          *)
(* writeSeoToSheet and their helpers) and the two UI handlers that call    *)
(* them (handleFetchTopic in App.tsx, handleSave in SheetIntegration.tsx). *)
(* Every await of a network request is a step boundary: the handler        *)
(* issues the request in one action and consumes the response in the next. *)
(* The spreadsheet itself is the variable grid; the Sheets API is modelled *)
(* by what it does to A1 ranges (ParseRange, ReadValues, WriteValues).     *)
(***************************************************************************)
EXTENDS Integers, Sequences, FiniteSets, TLC

VARIABLES
    grid,        \* the tab: grid[1] is the header row, grid[2..] the data rows
    rowNumber,   \* sheetState.rowNumber, the text of the "Row #" input
    pc,          \* where the running handler is suspended
    op,          \* locals of the running service call
    reqs,        \* network requests issued by the running service call
    outcome,     \* what the service call returned or threw
    apiFaults,   \* the failure responses the API can answer with in this run
    spreadsheetId,  \* sheetState.spreadsheetId, the text of the sheet input
    accessToken,    \* sheetState.accessToken, the text of the token input
    tabs,           \* sheetState.tabs, the titles of the tabs last fetched
    resps,          \* the responses the running service call has received
    prev,           \* history: the sheet and the outcome of the call finished last
    ui              \* what the user sees: status, notification, topic, result

vars == <<grid, rowNumber, pc, op, reqs, outcome, apiFaults,
          spreadsheetId, accessToken, tabs, resps, prev, ui>>

-----------------------------------------------------------------------------
(* Bounds *)

\* widest row of the tab in Init
MaxCols == 2
\* most data rows of the tab in Init
MaxRows == 2
\* widest header row of the header-resolution runs
MaxHdrCols == 3
\* filled cells below the header row of a tab in Init
MaxCells == 3
\* blanks around a pasted token
MaxPad == 1
\* highest column index (0-based) of a header; 702 is the first three-letter column
MaxIndex == 704
\* the most calls a user makes one after the other
MaxCalls == 3

-----------------------------------------------------------------------------
(* Strings: JavaScript's trim, toLowerCase and join *)

UNDEF == "<undefined>"     \* the JavaScript value undefined of a missing cell

WhitespaceChars == {" ", "\t"}
UpperChars == "ABCDEFGHIJKLMNOPQRSTUVWXYZ"
LowerChars == "abcdefghijklmnopqrstuvwxyz"
DigitChars == "0123456789"

CharAt(s, i) == SubSeq(s, i, i)

SetMin(S) == CHOOSE x \in S : \A y \in S : x <= y
SetMax(S) == CHOOSE x \in S : \A y \in S : x >= y

UpperSet == {CharAt(UpperChars, i) : i \in 1..26}
LowerSet == {CharAt(LowerChars, i) : i \in 1..26}
DigitSet == {CharAt(DigitChars, i) : i \in 1..10}

IsUpper(c) == c \in UpperSet
IsDigit(c) == c \in DigitSet

Trim(s) ==
    LET keep == {i \in 1..Len(s) : CharAt(s, i) \notin WhitespaceChars}
    IN  IF keep = {} THEN "" ELSE SubSeq(s, SetMin(keep), SetMax(keep))

LowerOf ==
    [c \in UpperSet |-> CharAt(LowerChars, CHOOSE i \in 1..26 : CharAt(UpperChars, i) = c)]

LowerChar(c) == IF IsUpper(c) THEN LowerOf[c] ELSE c

RECURSIVE ToLowerCase(_)
ToLowerCase(s) ==
    IF Len(s) = 0 THEN ""
    ELSE LowerChar(CharAt(s, 1)) \o ToLowerCase(SubSeq(s, 2, Len(s)))

RECURSIVE Join(_, _)
Join(xs, sep) ==
    IF Len(xs) = 0 THEN ""
    ELSE IF Len(xs) = 1 THEN xs[1]
    ELSE xs[1] \o sep \o Join(Tail(xs), sep)

\* JavaScript truthiness of a string-or-undefined value
Truthy(s) == s # UNDEF /\ s # ""

-----------------------------------------------------------------------------
(* JavaScript numbers as far as the row argument needs them *)

Num(n) == [t |-> "num", v |-> n]
NaN == [t |-> "NaN", v |-> 0]
Undefined == [t |-> "undefined", v |-> 0]

\* if (row) ...: 0, NaN and undefined are falsy
NumTruthy(x) == x.t = "num" /\ x.v # 0

DigitOf ==
    [c \in DigitSet |-> (CHOOSE i \in 1..10 : CharAt(DigitChars, i) = c) - 1]

DigitVal(c) == DigitOf[c]

RECURSIVE DigitsValue(_, _)
DigitsValue(s, acc) ==
    IF Len(s) = 0 \/ ~IsDigit(CharAt(s, 1)) THEN acc
    ELSE DigitsValue(SubSeq(s, 2, Len(s)), acc * 10 + DigitVal(CharAt(s, 1)))

\* the digits of parseInt's input after the sign
ParseDigits(sign, body) ==
    IF Len(body) = 0 \/ ~IsDigit(CharAt(body, 1)) THEN NaN
    ELSE Num(sign * DigitsValue(body, 0))

\* parseInt's input after the leading whitespace
ParseSigned(t) ==
    IF Len(t) > 0 /\ CharAt(t, 1) \in {"-", "+"}
    THEN ParseDigits(IF CharAt(t, 1) = "-" THEN -1 ELSE 1, SubSeq(t, 2, Len(t)))
    ELSE ParseDigits(1, t)

\* parseInt(s): optional sign, then the longest run of digits; NaN without one
ParseInt(s) == ParseSigned(Trim(s))

\* `${row}` and row.toString()
NumToString(x) ==
    IF x.t = "num" THEN ToString(x.v) ELSE x.t

\* sheetState.rowNumber ? parseInt(sheetState.rowNumber) : undefined
RowArgument(text) == IF text # "" THEN ParseInt(text) ELSE Undefined

-----------------------------------------------------------------------------
(* services/sheetsService.ts: helpers *)

\* getColumnLetter: 0-based column index to column letters
RECURSIVE ColumnLetterLoop(_, _)
ColumnLetterLoop(index, letter) ==
    IF index >= 0
    THEN ColumnLetterLoop((index \div 26) - 1,
                          CharAt(UpperChars, (index % 26) + 1) \o letter)
    ELSE letter

\* the last letter only
getColumnLetter_LastLetter(index) == CharAt(UpperChars, (index % 26) + 1)

getColumnLetter(index) == ColumnLetterLoop(index, "")

\* One alternative of a header regex: words separated by \s? (an optional
\* single whitespace character), matched against the whole string, /i.
AltMatches(s, alt) ==
    IF Len(alt) = 1 THEN s = alt[1]
    ELSE \/ s = alt[1] \o alt[2]
         \/ \E w \in WhitespaceChars : s = alt[1] \o w \o alt[2]

RegexTest(alts, s) ==
    LET lower == ToLowerCase(s)
    IN  \E k \in 1..Len(alts) : AltMatches(lower, alts[k])

\* a topic regex that also accepts the title names
TopicRegex_AcceptsTitle ==
    << <<"topic">>, <<"target", "topic">>, <<"keyword">>,
       <<"primary", "keyword">>, <<"search", "query">>, <<"query">>,
       <<"content", "subject">>, <<"main", "keyword">>, <<"title">> >>

TopicRegex ==
    << <<"topic">>, <<"target", "topic">>, <<"keyword">>,
       <<"primary", "keyword">>, <<"search", "query">>, <<"query">>,
       <<"content", "subject">>, <<"main", "keyword">> >>

UrlRegex ==
    << <<"sources/external", "url">>, <<"external", "url">>, <<"url">>,
       <<"link">>, <<"website">>, <<"page", "url">>, <<"source", "url">>,
       <<"source">>, <<"current", "url">> >>

\* a title regex that also accepts a topic name
TitleRegex_AcceptsKeyword ==
    << <<"title">>, <<"seo", "title">>, <<"page", "title">>,
       <<"meta", "title">>, <<"headline">>, <<"generated", "title">>,
       <<"metadata">>, <<"keyword">> >>

TitleRegex ==
    << <<"title">>, <<"seo", "title">>, <<"page", "title">>,
       <<"meta", "title">>, <<"headline">>, <<"generated", "title">>,
       <<"metadata">> >>

\* the index of the last matching header instead of the first
FindIndex_Last(headers, alts) ==
    LET hits == {i \in 1..Len(headers) : RegexTest(alts, Trim(headers[i]))}
    IN  IF hits = {} THEN -1 ELSE SetMax(hits) - 1

\* headers.findIndex(h => regex.test(h.trim())): 0-based, -1 when none
FindIndex(headers, alts) ==
    LET hits == {i \in 1..Len(headers) : RegexTest(alts, Trim(headers[i]))}
    IN  IF hits = {} THEN -1 ELSE SetMin(hits) - 1

\* values[index] of a JavaScript array: undefined outside the array
At(values, index) ==
    IF index >= 0 /\ index < Len(values) THEN values[index + 1] ELSE UNDEF


-----------------------------------------------------------------------------
(* The Sheets API, as the requests of sheetsService.ts use it: A1 ranges    *)
(* over the tab, values.get, values.update and values:batchUpdate.          *)

TrimRow(cells) ==
    LET keep == {i \in 1..Len(cells) : cells[i] # ""}
    IN  IF keep = {} THEN <<>> ELSE SubSeq(cells, 1, SetMax(keep))

TrimRows(rs) ==
    LET keep == {i \in 1..Len(rs) : rs[i] # <<>>}
    IN  IF keep = {} THEN <<>> ELSE SubSeq(rs, 1, SetMax(keep))

\* column letters to 0-based index, A = 0, Z = 25, AA = 26
LetterOrdinal ==
    [c \in UpperSet |-> CHOOSE i \in 1..26 : CharAt(UpperChars, i) = c]

RECURSIVE LetterIndexLoop(_, _)
LetterIndexLoop(s, acc) ==
    IF Len(s) = 0 THEN acc - 1
    ELSE LetterIndexLoop(SubSeq(s, 2, Len(s)),
             acc * 26 + LetterOrdinal[CharAt(s, 1)])

LetterIndex(s) == LetterIndexLoop(s, 0)

\* a cell reference split into its letters and its digits
RefOf(letters, digits) ==
    [valid |-> /\ Len(letters) + Len(digits) > 0
               /\ \A i \in 1..Len(digits) : IsDigit(CharAt(digits, i))
               /\ (Len(digits) = 0 \/ DigitsValue(digits, 0) >= 1),
     col   |-> IF Len(letters) = 0 THEN -1 ELSE LetterIndex(letters),
     row   |-> IF Len(digits) = 0 THEN 0 ELSE DigitsValue(digits, 0)]

SplitRef(ref, k) == RefOf(SubSeq(ref, 1, k), SubSeq(ref, k + 1, Len(ref)))

\* the number of leading upper-case letters
LetterCount(ref) ==
    LET nonUp == {i \in 1..Len(ref) : ~IsUpper(CharAt(ref, i))}
    IN  IF nonUp = {} THEN Len(ref) ELSE SetMin(nonUp) - 1

\* a cell reference: letters, then digits; either part may be missing
ParseRef(ref) == SplitRef(ref, LetterCount(ref))

\* top..bottom are 1-based rows (bottom 0 = unbounded), left..right 0-based
\* columns (right -1 = unbounded)
RangeOf(r1, r2) ==
    [valid  |-> r1.valid /\ r2.valid,
     top    |-> IF r1.row = 0 THEN 1 ELSE r1.row,
     bottom |-> r2.row,
     left   |-> IF r1.col = -1 THEN 0 ELSE r1.col,
     right  |-> r2.col]

InvalidRange == [valid |-> FALSE, top |-> 1, bottom |-> 0, left |-> 0, right |-> -1]

\* "<ref>" or "<ref>:<ref>"
ParseA1(a1) ==
    LET colon == {i \in 1..Len(a1) : CharAt(a1, i) = ":"}
    IN  IF colon = {} THEN RangeOf(ParseRef(a1), ParseRef(a1))
        ELSE IF Cardinality(colon) > 1 THEN InvalidRange
        ELSE RangeOf(ParseRef(SubSeq(a1, 1, SetMin(colon) - 1)),
                     ParseRef(SubSeq(a1, SetMin(colon) + 1, Len(a1))))

\* "<tab>!<A1 range>"
ParseRange(range) ==
    ParseA1(SubSeq(range,
                   SetMin({i \in 1..Len(range) : CharAt(range, i) = "!"}) + 1,
                   Len(range)))

\* the cells of a parsed range, without trailing empty cells and rows
ReadRows(g, rg) ==
    LET last == IF rg.bottom = 0 \/ rg.bottom > Len(g) THEN Len(g) ELSE rg.bottom
        Cut(cells) ==
            TrimRow(SubSeq(cells, rg.left + 1,
                           IF rg.right = -1 \/ rg.right + 1 > Len(cells)
                           THEN Len(cells) ELSE rg.right + 1))
    IN  TrimRows([i \in 1..(IF last >= rg.top THEN last - rg.top + 1 ELSE 0)
                     |-> Cut(g[rg.top + i - 1])])

\* values.get
ReadValues(g, range) == ReadRows(g, ParseRange(range))

\* row r of the tab after a 2-D array of values was entered at a parsed range
WrittenRow(g, rg, values, r) ==
    LET inR  == r >= rg.top /\ r <= rg.top + Len(values) - 1
        w    == IF inR THEN Len(values[r - rg.top + 1]) ELSE 0
        oldW == IF r <= Len(g) THEN Len(g[r]) ELSE 0
    IN  TrimRow([c \in 1..(IF rg.left + w > oldW /\ inR THEN rg.left + w ELSE oldW) |->
            IF inR /\ c > rg.left /\ c <= rg.left + w
            THEN values[r - rg.top + 1][c - rg.left]
            ELSE IF r <= Len(g) /\ c <= Len(g[r]) THEN g[r][c] ELSE ""])

WriteRows(g, rg, values) ==
    TrimRows([r \in 1..(IF rg.top + Len(values) - 1 > Len(g)
                        THEN rg.top + Len(values) - 1 ELSE Len(g))
                 |-> WrittenRow(g, rg, values, r)])

\* values.update of one range with a 2-D array of USER_ENTERED values
WriteValues(g, range, values) == WriteRows(g, ParseRange(range), values)

\* values:batchUpdate: every entry of data applied in order
RECURSIVE BatchWrite(_, _)
BatchWrite(g, data) ==
    IF Len(data) = 0 THEN g
    ELSE BatchWrite(WriteValues(g, data[1].range, data[1].values), Tail(data))

\* HTTP statuses the API answers with
Statuses == {200, 401, 403, 404, 500}

-----------------------------------------------------------------------------
(* services/sheetsService.ts: identifiers and API errors *)

DEFAULT_SPREADSHEET_ID == "1zazLdp9CwH36SwwK__mAwYyU5idWgVuRWiIwFFbnidA"

IsIdChar(c) ==
    IsUpper(c) \/ IsDigit(c) \/ c \in {"-", "_"} \/ c \in LowerSet

\* input.match(/\/d\/([a-zA-Z0-9-_]+)/): leftmost match, greedy capture
\* the variant that returns an input without /d/ as it is
extractSpreadsheetId_Untrimmed(input) ==
    LET n     == Len(input)
        hits  == {i \in 1..n : /\ i + 3 <= n
                               /\ SubSeq(input, i, i + 2) = "/d/"
                               /\ IsIdChar(CharAt(input, i + 3))}
        start == SetMin(hits) + 3
        stop  == {j \in start..n : ~IsIdChar(CharAt(input, j))}
    IN  IF input = "" THEN ""
        ELSE IF hits = {} THEN input
        ELSE SubSeq(input, start, IF stop = {} THEN n ELSE SetMin(stop) - 1)

extractSpreadsheetId(input) ==
    LET n     == Len(input)
        hits  == {i \in 1..n : /\ i + 3 <= n
                               /\ SubSeq(input, i, i + 2) = "/d/"
                               /\ IsIdChar(CharAt(input, i + 3))}
        start == SetMin(hits) + 3
        stop  == {j \in start..n : ~IsIdChar(CharAt(input, j))}
    IN  IF input = "" THEN ""
        ELSE IF hits = {} THEN Trim(input)
        ELSE SubSeq(input, start, IF stop = {} THEN n ELSE SetMin(stop) - 1)

\* the text of s without the characters of the set
RECURSIVE RemoveChars(_, _)
RemoveChars(s, chars) ==
    IF s = "" THEN ""
    ELSE (IF CharAt(s, 1) \in chars THEN "" ELSE CharAt(s, 1))
            \o RemoveChars(SubSeq(s, 2, Len(s)), chars)

\* s without its leading whitespace: the \s* that ends a prefix regex
DropLeadingSpace(s) ==
    LET nonWs == {i \in 1..Len(s) : CharAt(s, i) \notin WhitespaceChars}
    IN  IF nonWs = {} THEN "" ELSE SubSeq(s, SetMin(nonWs), Len(s))

\* s.replace(/^<prefix>\s*/i, ''): prefix is given in lower case
StripPrefix(s, prefix) ==
    IF Len(s) >= Len(prefix) /\ ToLowerCase(SubSeq(s, 1, Len(prefix))) = prefix
    THEN DropLeadingSpace(SubSeq(s, Len(prefix) + 1, Len(s)))
    ELSE s

\* the cleanup sequence of cleanToken
CleanupToken(token) ==
    Trim(RemoveChars(StripPrefix(StripPrefix(RemoveChars(token, {"\"", "'"}),
                                             "authorization:"),
                                 "bearer"),
                     WhitespaceChars))

\* JSON.parse of a text that is an object with one string member,
\* { "<key>" : "<value>" }; ok is FALSE for every other text
JsonMember(t, quotes) ==
    IF /\ Cardinality(quotes) = 4
       /\ Len(t) >= 2 /\ CharAt(t, 1) = "{" /\ CharAt(t, Len(t)) = "}"
    THEN LET q1 == SetMin(quotes)
             q4 == SetMax(quotes)
             q2 == SetMin(quotes \ {q1})
             q3 == SetMax(quotes \ {q4})
         IN  [ok    |-> /\ Trim(SubSeq(t, 2, q1 - 1)) = ""
                        /\ Trim(SubSeq(t, q2 + 1, q3 - 1)) = ":"
                        /\ Trim(SubSeq(t, q4 + 1, Len(t) - 1)) = ""
                        /\ \A i \in (q1 + 1)..(q2 - 1) \cup (q3 + 1)..(q4 - 1) :
                              CharAt(t, i) \notin {"\t", "\\"},
              key   |-> SubSeq(t, q1 + 1, q2 - 1),
              value |-> SubSeq(t, q3 + 1, q4 - 1)]
    ELSE [ok |-> FALSE, key |-> "", value |-> ""]

JsonParse(t) == JsonMember(t, {i \in 1..Len(t) : CharAt(t, i) = "\""})

\* lines 12-19: parsed.access_token when the paste is JSON and has one
AccessTokenOf(parsed, token) ==
    IF parsed.ok /\ parsed.key = "access_token" /\ parsed.value # ""
    THEN parsed.value
    ELSE CleanupToken(token)

StartsWithBrace(t) == Len(t) >= 1 /\ CharAt(t, 1) = "{"

cleanToken(token) ==
    IF token = "" THEN ""
    ELSE IF StartsWithBrace(Trim(token))
    THEN AccessTokenOf(JsonParse(Trim(token)), token)
    ELSE CleanupToken(token)

\* the address of the connected sheet and sheetState.selectedTab
SheetUrl == "https://docs.google.com/spreadsheets/d/1AbC-d_9/edit"
selectedTab == "Sheet1"

\* A response: status, statusText and errorMessage: error.message of a JSON
\* body, "" when the JSON body has none, UNDEF when the body is no JSON.
AllFaults ==
    [status : Statuses \ {200}, statusText : {"", "Bad Gateway"},
     errorMessage : {UNDEF, "", "Quota exceeded"}]

OkResponse == [status |-> 200, statusText |-> "", errorMessage |-> UNDEF]

Responses == apiFaults \cup {OkResponse}

\* lines 50-58: error.message of a JSON body, or else the status text, or
\* else, when the body is no JSON and there is no status text, "HTTP <status>"
ErrorMessageOf(response) ==
    IF response.errorMessage \notin {UNDEF, ""} THEN response.errorMessage
    ELSE IF response.errorMessage = UNDEF /\ response.statusText = ""
    THEN "HTTP " \o ToString(response.status)
    ELSE response.statusText

\* the normalizer without the case of 404
handleGoogleApiError_No404(response, context, id) ==
    IF response.status = 401
    THEN context \o ": Access Token expired or invalid. Please generate a new one."
    ELSE IF response.status = 403
    THEN IF id = DEFAULT_SPREADSHEET_ID
         THEN context \o ": Permission denied (403). You are trying to access the Read-Only Template. Please make a copy of the sheet and use YOUR Spreadsheet ID."
         ELSE context \o ": Permission denied (403). The Google Account used to generate the token does NOT have access to this Sheet. Please check your Spreadsheet Share permissions."
    ELSE context \o ": " \o ErrorMessageOf(response)

\* the normalizer without the text about the template
handleGoogleApiError_NoTemplate(response, context, id) ==
    IF response.status = 401
    THEN context \o ": Access Token expired or invalid. Please generate a new one."
    ELSE IF response.status = 403
    THEN context \o ": Permission denied (403). The Google Account used to generate the token does NOT have access to this Sheet. Please check your Spreadsheet Share permissions."
    ELSE IF response.status = 404
    THEN context \o ": Spreadsheet not found. Check the ID."
    ELSE context \o ": " \o ErrorMessageOf(response)

\* the message of the Error that handleGoogleApiError throws
handleGoogleApiError(response, context, id) ==
    IF response.status = 401
    THEN context \o ": Access Token expired or invalid. Please generate a new one."
    ELSE IF response.status = 403
    THEN IF id = DEFAULT_SPREADSHEET_ID
         THEN context \o ": Permission denied (403). You are trying to access the Read-Only Template. Please make a copy of the sheet and use YOUR Spreadsheet ID."
         ELSE context \o ": Permission denied (403). The Google Account used to generate the token does NOT have access to this Sheet. Please check your Spreadsheet Share permissions."
    ELSE IF response.status = 404
    THEN context \o ": Spreadsheet not found. Check the ID."
    ELSE context \o ": " \o ErrorMessageOf(response)

\* the API answers 200 only to a range it can parse
CanAnswer(response, range) ==
    response.status = 200 => ParseRange(range).valid

-----------------------------------------------------------------------------
(* State of a running call *)

NoData ==
    [primaryKeyword |-> "", seoTitle |-> "", metaDescription |-> "",
     secondaryKeywords |-> <<>>, tags |-> <<>>, category |-> <<>>]

\* call: the service function running; headerOk: headerResponse.ok
NoOp ==
    [call |-> "none", cleanId |-> "", token |-> "",
     row |-> Undefined, headerOk |-> FALSE, headers |-> <<>>,
     topicIndex |-> -1, urlIndex |-> -1, titleIndex |-> -1, data |-> NoData,
     rowText |-> "", columnMapping |-> <<>>, useDefaultMapping |-> TRUE]

NoOutcome == [state |-> "none", topic |-> "", url |-> "", row |-> Undefined, message |-> ""]

Returned(topic, url, row) ==
    [state |-> "returned", topic |-> topic, url |-> url, row |-> row, message |-> ""]

Thrown(message) ==
    [state |-> "thrown", topic |-> "", url |-> "", row |-> Undefined, message |-> message]

\* The state of KeywordResearchModal. reply and impl are history: the answer
\* to the request of the search made last and the implementation that made
\* it; outcome is what generateKeywordIdeas returned or threw.
NoReply == [kind |-> "none", status |-> 0, body |-> "", ideas |-> <<>>]

NoKw ==
    [isLoading |-> FALSE, ideas |-> <<>>, error |-> "", term |-> "",
     reply |-> NoReply, impl |-> "",
     outcome |-> [state |-> "none", ideas |-> <<>>, message |-> ""]]

\* The state of App and SheetIntegration that the handlers set. trace is
\* history: the statuses set since the last handler started. topicRow,
\* resultRow and resultGen are history: the row request.topic was fetched
\* from, the row and the generation request the result on display comes from.
NoUi ==
    [status |-> "IDLE", isWriting |-> FALSE, trace |-> <<>>,
     note |-> [type |-> "", message |-> ""],
     topic |-> "", topicRow |-> Undefined,
     hasResult |-> FALSE, result |-> NoData, resultRow |-> Undefined, resultGen |-> 0,
     gens |-> <<>>, genCount |-> 0, writeRow |-> Undefined, kw |-> NoKw]

\* setStatus(s)
SetStatus(u, s) == [u EXCEPT !.status = s, !.trace = Append(@, s)]

\* the first setStatus of a handler
StartStatus(u, s) == [u EXCEPT !.status = s, !.trace = <<s>>]

\* showNotification(type, message)
Notify(u, type, message) == [u EXCEPT !.note = [type |-> type, message |-> message]]

\* a handler that returns at a guard: the notification only
Rejected(u, message) == [Notify(u, "error", message) EXCEPT !.trace = <<>>]

\* setResult(data)
ShowResult(u, data) == [u EXCEPT !.hasResult = TRUE, !.result = data]

\* topic.substring(0, 20)
Substring20(text) == SubSeq(text, 1, IF Len(text) < 20 THEN Len(text) ELSE 20)

\* no call has finished yet; fetched is the row the last call of
\* fetchTopicAndUrl returned in auto mode
NoLast == [call |-> "", row |-> Undefined, ok |-> FALSE, grid |-> <<>>,
           outcome |-> NoOutcome, fetched |-> Undefined, count |-> 0]


GetRequest(range) ==
    [method |-> "GET", path |-> "values/" \o range, valueInputOption |-> "",
     data |-> <<>>, values |-> <<>>]

\* the access tokens a call is made with: none, or one the user pasted
AccessTokens == {"", "ya29.token"}

-----------------------------------------------------------------------------
(* fetchTopicAndUrl, called by handleFetchTopic *)

MissingTopicMessage(headers) ==
    "Could not find a 'Topic' column. Found columns: ["
        \o (IF Len(headers) > 0 THEN Join(headers, ", ") ELSE "None found")
        \o "]. Please ensure your sheet has a header named 'Topic' or 'Keyword'."

MissingTitleMessage ==
    "Could not find a 'SEO Title' column. Auto-find requires this column to skip completed rows."

EmptyTopicMessage(row, topicIndex) ==
    "Row " \o NumToString(row) \o ": Topic is empty in column "
        \o getColumnLetter(topicIndex) \o "."

NoPendingMessage(headers, topicIndex, titleIndex) ==
    "No pending rows found in '" \o selectedTab \o "'. A row is pending if it has a '"
        \o At(headers, topicIndex) \o "' but no '" \o At(headers, titleIndex)
        \o "'. Check if all rows are already finished."

\* handleFetchTopic up to the first await inside fetchTopicAndUrl
handleFetchTopic ==
    /\ pc = "idle"
    /\ resps' = <<>>
    /\ selectedTab # ""
    /\ IF accessToken = ""
       THEN /\ outcome' = Thrown("Access Token is required.")
            /\ pc' = "done"
            /\ ui' = SetStatus(Notify(StartStatus(ui, "FETCHING_SHEET"), "error",
                                      "Access Token is required."), "IDLE")
            /\ UNCHANGED <<grid, rowNumber, op, reqs, apiFaults, spreadsheetId, accessToken, tabs, prev>>
       ELSE /\ op' = [NoOp EXCEPT !.call = "fetchTopicAndUrl",
                                  !.cleanId = extractSpreadsheetId(spreadsheetId),
                                  !.token = cleanToken(accessToken),
                                  !.row = RowArgument(rowNumber)]
            /\ reqs' = <<GetRequest(selectedTab \o "!1:1")>>
            /\ pc' = "fetch_headers"
            /\ ui' = StartStatus(ui, "FETCHING_SHEET")
            /\ UNCHANGED <<grid, rowNumber, outcome, apiFaults, spreadsheetId, accessToken, tabs, prev>>

\* the catch without the finally: the status is left as it is
FetchFailed_NoFinally(u, message) == Notify(u, "error", message)

\* catch (error) { showNotification('error', error.message) } finally
\* { setStatus(AppStatus.IDLE) }
FetchFailed(u, message) == SetStatus(Notify(u, "error", message), "IDLE")

\* headerData.values?.[0] || []
FirstRow(values) == IF Len(values) > 0 THEN values[1] ELSE <<>>

\* lines 134-172 with the three indices resolved
FetchHeadersResolved(headers, topicIndex, urlIndex, titleIndex) ==
    /\ op' = [op EXCEPT !.headerOk = TRUE,
                        !.headers = headers,
                        !.topicIndex = topicIndex,
                        !.urlIndex = urlIndex,
                        !.titleIndex = titleIndex]
    /\ UNCHANGED <<grid, rowNumber, apiFaults, spreadsheetId, accessToken, tabs, prev>>
    /\ IF topicIndex = -1
       THEN /\ outcome' = Thrown(MissingTopicMessage(headers))
            /\ ui' = FetchFailed(ui, MissingTopicMessage(headers))
            /\ pc' = "done"
            /\ UNCHANGED reqs
       ELSE IF NumTruthy(op.row)
       THEN /\ reqs' = Append(reqs, GetRequest(selectedTab \o "!"
                          \o NumToString(op.row) \o ":" \o NumToString(op.row)))
            /\ pc' = "fetch_row"
            /\ UNCHANGED <<outcome, ui>>
       ELSE IF titleIndex = -1
       THEN /\ outcome' = Thrown(MissingTitleMessage)
            /\ ui' = FetchFailed(ui, MissingTitleMessage)
            /\ pc' = "done"
            /\ UNCHANGED reqs
       ELSE /\ reqs' = Append(reqs, GetRequest(selectedTab \o "!A2:ZZ"))
            /\ pc' = "fetch_data"
            /\ UNCHANGED <<outcome, ui>>

\* lines 130-132: the three findIndex calls on the header row
FetchHeadersOk(headers) ==
    FetchHeadersResolved(headers, FindIndex(headers, TopicRegex),
                         FindIndex(headers, UrlRegex), FindIndex(headers, TitleRegex))

\* the header response arrives: resolve the columns, choose the mode
FetchHeadersResponse ==
    /\ pc = "fetch_headers"
    /\ \E response \in Responses :
        /\ resps' = Append(resps, response)
        /\ CanAnswer(response, selectedTab \o "!1:1")
        /\ IF response.status # 200
           THEN /\ outcome' = Thrown(handleGoogleApiError(response, "Read Headers Error",
                                         op.cleanId))
                /\ ui' = FetchFailed(ui, handleGoogleApiError(response,
                                         "Read Headers Error", op.cleanId))
                /\ pc' = "done"
                /\ UNCHANGED <<grid, rowNumber, op, reqs, apiFaults, spreadsheetId, accessToken, tabs, prev>>
           ELSE FetchHeadersOk(FirstRow(ReadValues(grid, selectedTab \o "!1:1")))

\* what handleFetchTopic does with the value fetchTopicAndUrl returned
FetchReturn(topic, url, row) ==
    /\ outcome' = Returned(topic, url, row)
    /\ rowNumber' = NumToString(row)
    /\ ui' = SetStatus(Notify([ui EXCEPT !.topic = topic, !.topicRow = row], "success",
                              "Fetched Row " \o NumToString(row) \o ": \""
                                  \o Substring20(topic) \o "...\""),
                       "IDLE")
    /\ pc' = "done"
    /\ UNCHANGED <<grid, op, reqs, apiFaults, spreadsheetId, accessToken, tabs, prev>>

\* what handleFetchTopic does with the error fetchTopicAndUrl threw
FetchThrow(message) ==
    /\ outcome' = Thrown(message)
    /\ ui' = FetchFailed(ui, message)
    /\ pc' = "done"
    /\ UNCHANGED <<grid, rowNumber, op, reqs, apiFaults, spreadsheetId, accessToken, tabs, prev>>

\* lines 155-157 with the two cells of the row
FetchRowValues(topicValue, urlValue) ==
    IF ~Truthy(topicValue) \/ ~Truthy(Trim(topicValue))
    THEN FetchThrow(EmptyTopicMessage(op.row, op.topicIndex))
    ELSE FetchReturn(topicValue, IF Truthy(urlValue) THEN urlValue ELSE "", op.row)

\* the topic column resolved again from the header row as it is at the read
\* of the row
FetchRowOk_Revalidated(values) ==
    FetchRowValues(At(values, FindIndex(FirstRow(ReadValues(grid, selectedTab \o "!1:1")),
                                        TopicRegex)),
                   IF op.urlIndex # -1 THEN At(values, op.urlIndex) ELSE "")

\* lines 150-153 with the values of the row
FetchRowOk(values) ==
    FetchRowValues(At(values, op.topicIndex),
                   IF op.urlIndex # -1 THEN At(values, op.urlIndex) ELSE "")

\* Manual mode: the response to the read of row `row`
FetchRowResponse ==
    /\ pc = "fetch_row"
    /\ \E response \in Responses :
        /\ resps' = Append(resps, response)
        /\ CanAnswer(response, reqs[2].path)
        /\ IF response.status # 200
           THEN FetchThrow(handleGoogleApiError(response, "Read Row Error",
                               op.cleanId))
           ELSE FetchRowOk(FirstRow(ReadValues(grid, reqs[2].path)))

\* the loop without the trim of the title: a whitespace-only title counts as
\* a title
RECURSIVE FirstPending_TitleUntrimmed(_, _, _, _)
FirstPending_TitleUntrimmed(rowsData, i, topicIndex, titleIndex) ==
    IF i >= Len(rowsData) THEN -1
    ELSE LET currentRow == rowsData[i + 1]
             topic      == At(currentRow, topicIndex)
             title      == At(currentRow, titleIndex)
             hasTopic   == Truthy(topic) /\ Len(Trim(topic)) > 0
         IN  IF hasTopic /\ ~Truthy(title) THEN i
             ELSE FirstPending_TitleUntrimmed(rowsData, i + 1, topicIndex, titleIndex)

\* the for loop of auto-find mode from index i on: the 0-based index of the
\* first pending row, -1 when the loop runs off the end
RECURSIVE FirstPending(_, _, _, _)
FirstPending(rowsData, i, topicIndex, titleIndex) ==
    IF i >= Len(rowsData) THEN -1
    ELSE LET currentRow   == rowsData[i + 1]
             topic        == At(currentRow, topicIndex)
             title        == At(currentRow, titleIndex)
             hasTopic     == Truthy(topic) /\ Len(Trim(topic)) > 0
             isTitleEmpty == ~Truthy(title) \/ Len(Trim(title)) = 0
         IN  IF hasTopic /\ isTitleEmpty THEN i
             ELSE FirstPending(rowsData, i + 1, topicIndex, titleIndex)

\* lines 188-198 with the index the loop stopped at
FetchDataFound(rowsData, i) ==
    IF i # -1
    THEN FetchReturn(At(rowsData[i + 1], op.topicIndex),
                     IF op.urlIndex # -1 /\ Truthy(At(rowsData[i + 1], op.urlIndex))
                     THEN At(rowsData[i + 1], op.urlIndex) ELSE "",
                     Num(i + 2))
    ELSE FetchThrow(NoPendingMessage(op.headers, op.topicIndex, op.titleIndex))

\* the loop resumed at the row the call before returned
FetchDataOk_ResumeScan(rowsData) ==
    FetchDataFound(rowsData,
                   FirstPending(rowsData,
                                IF outcome.state = "returned" /\ outcome.row.v >= 2
                                THEN outcome.row.v - 2 ELSE 0,
                                op.topicIndex, op.titleIndex))

\* lines 175-196 with the rows of the data range
FetchDataOk(rowsData) ==
    FetchDataFound(rowsData, FirstPending(rowsData, 0, op.topicIndex, op.titleIndex))

\* Auto-find mode: the response to the read of A2:ZZ
FetchDataResponse ==
    /\ pc = "fetch_data"
    /\ \E response \in Responses :
        /\ resps' = Append(resps, response)
        /\ CanAnswer(response, reqs[2].path)
        /\ IF response.status # 200
           THEN FetchThrow(handleGoogleApiError(response, "Read Data Error",
                               op.cleanId))
           ELSE FetchDataOk(ReadValues(grid, reqs[2].path))

\* finally { setStatus(AppStatus.IDLE) }: the handler is over and the next
\* call can start
FinishCall ==
    /\ pc = "done"
    /\ prev.count + 1 < MaxCalls
    /\ pc' = "idle"
    /\ prev' = [call |-> op.call, row |-> op.row,
                ok |-> \A k \in 1..Len(resps) : resps[k].status = 200,
                grid |-> grid, outcome |-> outcome,
                fetched |-> IF op.call # "fetchTopicAndUrl" THEN prev.fetched
                            ELSE IF op.row = Undefined /\ outcome.state = "returned"
                            THEN outcome.row ELSE Undefined,
                count |-> prev.count + 1]
    /\ UNCHANGED <<grid, rowNumber, op, reqs, outcome, apiFaults, spreadsheetId,
                   accessToken, tabs, resps, ui>>

\* the "Row #" input: onChange, and the button that clears it
setRowNumber ==
    /\ pc = "idle"
    /\ \E text \in {"", "1", "2"} : rowNumber' = text
    /\ UNCHANGED <<grid, pc, op, reqs, outcome, apiFaults, spreadsheetId,
                   accessToken, tabs, resps, prev, ui>>

-----------------------------------------------------------------------------
(* writeSeoToSheet, called by handleSave *)

\* keyMap in the order of its keys: <<header name, field of SeoResult>>
keyMap ==
    << <<"Primary Keyword", "primaryKeyword">>, <<"Target KeyWord", "primaryKeyword">>,
       <<"Keyword", "primaryKeyword">>, <<"Topic", "primaryKeyword">>,
       <<"Search Query", "primaryKeyword">>, <<"Main Keyword", "primaryKeyword">>,
       <<"SEO Title", "seoTitle">>, <<"Title", "seoTitle">>,
       <<"Page Title", "seoTitle">>, <<"Meta Title", "seoTitle">>,
       <<"Headline", "seoTitle">>,
       <<"Meta Description", "metaDescription">>, <<"Description", "metaDescription">>,
       <<"Meta", "metaDescription">>,
       <<"Secondary Keywords", "secondaryKeywords">>, <<"Keywords", "secondaryKeywords">>,
       <<"LSI", "secondaryKeywords">>, <<"LSI Keywords", "secondaryKeywords">>,
       <<"Tags", "tags">>, <<"Content Tags", "tags">>,
       <<"Category", "category">>, <<"Categories", "category">>,
       <<"Niche", "category">> >>

\* keyMap[Object.keys(keyMap).find(k => k.toLowerCase() === cleanHeader)],
\* "" when no key matches (or the header is empty)
keyLower == [k \in 1..Len(keyMap) |-> ToLowerCase(keyMap[k][1])]

MatchedField(header) ==
    LET cleanHeader == ToLowerCase(Trim(header))
        hits == {k \in 1..Len(keyMap) : keyLower[k] = cleanHeader}
    IN  IF header = "" \/ hits = {} THEN "" ELSE keyMap[SetMin(hits)][2]

\* columnMapping[key] = letter on an object that keeps insertion order
SetKey(mapping, key, letter) ==
    IF \E i \in 1..Len(mapping) : mapping[i].key = key
    THEN [i \in 1..Len(mapping) |->
             IF mapping[i].key = key THEN [key |-> key, letter |-> letter]
             ELSE mapping[i]]
    ELSE Append(mapping, [key |-> key, letter |-> letter])

\* headers.forEach((header, index) => ...) from position i (1-based) on
\* the callback returns at once for an empty header: the loop goes on at
\* the next header that is not empty
RECURSIVE MapHeaders(_, _, _)
MapField(headers, i, mapping, field) ==
    MapHeaders(headers, i + 1,
               IF field # ""
               THEN SetKey(mapping, field, getColumnLetter(i - 1))
               ELSE mapping)

MapFrom(headers, rest, mapping) ==
    IF rest = {} THEN mapping
    ELSE MapField(headers, SetMin(rest), mapping, MatchedField(headers[SetMin(rest)]))

MapHeaders(headers, i, mapping) ==
    MapFrom(headers, {j \in i..Len(headers) : headers[j] # ""}, mapping)

\* the array fields joined in reverse order
dataMap_Reversed(data, key) ==
    CASE key = "primaryKeyword"    -> data.primaryKeyword
      [] key = "seoTitle"          -> data.seoTitle
      [] key = "metaDescription"   -> data.metaDescription
      [] key = "secondaryKeywords" ->
            Join([i \in 1..Len(data.secondaryKeywords) |->
                     data.secondaryKeywords[Len(data.secondaryKeywords) + 1 - i]], ", ")
      [] key = "tags"              ->
            Join([i \in 1..Len(data.tags) |-> data.tags[Len(data.tags) + 1 - i]], ", ")
      [] key = "category"          ->
            Join([i \in 1..Len(data.category) |->
                     data.category[Len(data.category) + 1 - i]], ", ")

\* the dataMap object of the mapped write, read at one key
dataMap(data, key) ==
    CASE key = "primaryKeyword"    -> data.primaryKeyword
      [] key = "seoTitle"          -> data.seoTitle
      [] key = "metaDescription"   -> data.metaDescription
      [] key = "secondaryKeywords" -> Join(data.secondaryKeywords, ", ")
      [] key = "tags"              -> Join(data.tags, ", ")
      [] key = "category"          -> Join(data.category, ", ")

\* Object.keys(columnMapping).map(key => ({range, values}))
dataToUpdate(mapping, row, data) ==
    [i \in 1..Len(mapping) |->
        [range  |-> selectedTab \o "!" \o mapping[i].letter \o NumToString(row),
         values |-> << <<dataMap(data, mapping[i].key)>> >>]]

FallbackRange(row) ==
    selectedTab \o "!B" \o NumToString(row) \o ":F" \o NumToString(row)

\* the fallback row with the title before the keyword
FallbackValues_TitleFirst(data) ==
    << <<data.seoTitle, data.primaryKeyword, Join(data.secondaryKeywords, ", "),
         data.metaDescription, Join(data.tags, ", ")>> >>

FallbackValues(data) ==
    << <<data.primaryKeyword, data.seoTitle, Join(data.secondaryKeywords, ", "),
         data.metaDescription, Join(data.tags, ", ")>> >>

\* the SeoResult on display when the user presses "Write Data to Sheet"
SeoResults ==
    { [primaryKeyword |-> "k", seoTitle |-> "t", metaDescription |-> "d",
       secondaryKeywords |-> <<"b", "a", "b">>, tags |-> <<"x">>,
       category |-> <<"c2", "c1">>],
      [primaryKeyword |-> "k2", seoTitle |-> "t2", metaDescription |-> "d2",
       secondaryKeywords |-> <<>>, tags |-> <<"y", "x">>,
       category |-> <<>>] }

\* catch: onStatusChange(AppStatus.ERROR, "Failed to write ..."); finally:
\* setIsWriting(false)
SaveFailed(u) ==
    [Notify(SetStatus(u, "ERROR"), "error", "Failed to write to sheet. Check permissions.")
        EXCEPT !.isWriting = FALSE]

\* handleSave up to the first await inside writeSeoToSheet
handleSave ==
    /\ pc = "idle"
    /\ resps' = <<>>
    /\ IF ~ui.hasResult \/ selectedTab = "" \/ rowNumber = ""
       THEN /\ outcome' = Thrown("Missing sheet configuration (Tab or Row #).")
            /\ ui' = Notify(StartStatus(ui, "ERROR"), "error",
                            "Missing sheet configuration (Tab or Row #).")
            /\ pc' = "done"
            /\ UNCHANGED <<grid, rowNumber, op, reqs, apiFaults, spreadsheetId, accessToken, tabs, prev>>
       ELSE IF accessToken = ""
       THEN /\ outcome' = Thrown("Access Token is required.")
            /\ ui' = SaveFailed([StartStatus(ui, "WRITING_SHEET")
                                     EXCEPT !.writeRow = ui.resultRow])
            /\ pc' = "done"
            /\ UNCHANGED <<grid, rowNumber, op, reqs, apiFaults, spreadsheetId, accessToken, tabs, prev>>
       ELSE /\ op' = [NoOp EXCEPT !.call = "writeSeoToSheet",
                                  !.cleanId = extractSpreadsheetId(spreadsheetId),
                                  !.token = cleanToken(accessToken),
                                  !.row = ParseInt(rowNumber), !.rowText = rowNumber,
                                  !.data = ui.result]
            /\ reqs' = <<GetRequest(selectedTab \o "!1:1")>>
            /\ ui' = [StartStatus(ui, "WRITING_SHEET")
                          EXCEPT !.isWriting = TRUE, !.writeRow = ui.resultRow]
            /\ pc' = "write_headers"
            /\ UNCHANGED <<grid, rowNumber, outcome, apiFaults, spreadsheetId, accessToken, tabs, prev>>

\* a plan of one entry sent as the update of the fallback range
WriteMapped_SingleAsPut(headerOk, headers, columnMapping) ==
    /\ op' = [op EXCEPT !.headerOk = headerOk,
                        !.headers = headers,
                        !.columnMapping = columnMapping,
                        !.useDefaultMapping = ~(Len(columnMapping) > 0)]
    /\ IF Len(columnMapping) > 1
       THEN /\ reqs' = Append(reqs,
                   [method |-> "POST", path |-> "values:batchUpdate",
                    valueInputOption |-> "USER_ENTERED",
                    data |-> dataToUpdate(columnMapping, op.row, op.data),
                    values |-> <<>>])
            /\ pc' = "write_batch"
       ELSE /\ reqs' = Append(reqs,
                   [method |-> "PUT", path |-> "values/" \o FallbackRange(op.row),
                    valueInputOption |-> "USER_ENTERED",
                    data |-> <<>>,
                    values |-> FallbackValues(op.data)])
            /\ pc' = "write_put"
    /\ UNCHANGED <<grid, rowNumber, outcome, apiFaults, spreadsheetId, accessToken, tabs, prev, ui>>

\* lines 269-321 with the column mapping built
WriteMapped(headerOk, headers, columnMapping) ==
    /\ op' = [op EXCEPT !.headerOk = headerOk,
                        !.headers = headers,
                        !.columnMapping = columnMapping,
                        !.useDefaultMapping = ~(Len(columnMapping) > 0)]
    /\ IF Len(columnMapping) > 0
       THEN /\ reqs' = Append(reqs,
                   [method |-> "POST", path |-> "values:batchUpdate",
                    valueInputOption |-> "USER_ENTERED",
                    data |-> dataToUpdate(columnMapping, op.row, op.data),
                    values |-> <<>>])
            /\ pc' = "write_batch"
       ELSE /\ reqs' = Append(reqs,
                   [method |-> "PUT", path |-> "values/" \o FallbackRange(op.row),
                    valueInputOption |-> "USER_ENTERED",
                    data |-> <<>>,
                    values |-> FallbackValues(op.data)])
            /\ pc' = "write_put"
    /\ UNCHANGED <<grid, rowNumber, outcome, apiFaults, spreadsheetId, accessToken, tabs, prev, ui>>

\* lines 230-266 with the header row
WriteHeadersOk(headers) == WriteMapped(TRUE, headers, MapHeaders(headers, 1, <<>>))

\* the header response arrives: map the columns, build and send the write;
\* a failed header read leaves columnMapping empty
WriteHeadersResponse ==
    /\ pc = "write_headers"
    /\ \E response \in Responses :
        /\ resps' = Append(resps, response)
        /\ CanAnswer(response, selectedTab \o "!1:1")
        /\ IF response.status = 200
           THEN WriteHeadersOk(FirstRow(ReadValues(grid, selectedTab \o "!1:1")))
           ELSE WriteMapped(FALSE, <<>>, <<>>)

\* what handleSave does when writeSeoToSheet has returned
WriteReturn(g) ==
    /\ grid' = g
    /\ outcome' = Returned("", "", op.row)
    /\ ui' = [Notify(SetStatus(ui, "SUCCESS"), "success",
                     "Successfully updated Row " \o op.rowText \o " in "
                         \o selectedTab \o "!")
                 EXCEPT !.isWriting = FALSE]
    /\ pc' = "done"
    /\ UNCHANGED <<rowNumber, op, reqs, apiFaults, spreadsheetId, accessToken, tabs, prev>>

\* what handleSave does with the error writeSeoToSheet threw
WriteThrow(message) ==
    /\ outcome' = Thrown(message)
    /\ ui' = SaveFailed(ui)
    /\ pc' = "done"
    /\ UNCHANGED <<grid, rowNumber, op, reqs, apiFaults, spreadsheetId, accessToken, tabs, prev>>

\* the response to values:batchUpdate
WriteBatchResponse ==
    /\ pc = "write_batch"
    /\ \E response \in Responses :
        /\ resps' = Append(resps, response)
        /\ response.status = 200 =>
               \A i \in 1..Len(reqs[2].data) : ParseRange(reqs[2].data[i].range).valid
        /\ IF response.status # 200
           THEN WriteThrow(handleGoogleApiError(response, "Batch update failed",
                               op.cleanId))
           ELSE WriteReturn(BatchWrite(grid, reqs[2].data))

\* the response to the PUT of the fallback range
WritePutResponse ==
    /\ pc = "write_put"
    /\ \E response \in Responses :
        /\ resps' = Append(resps, response)
        /\ CanAnswer(response, reqs[2].path)
        /\ IF response.status # 200
           THEN WriteThrow(handleGoogleApiError(response, "Fallback update failed",
                               op.cleanId))
           ELSE WriteReturn(WriteValues(grid, reqs[2].path, reqs[2].values))

-----------------------------------------------------------------------------
(* fetchSheetTabs, called by handleFetchTabs *)

\* the titles of the tabs of the connected spreadsheet; the first one is
\* the tab handleFetchTabs selects
SheetTabs == <<selectedTab>>

TabsRequest ==
    [method |-> "GET", path |-> "?fields=sheets.properties", valueInputOption |-> "",
     data |-> <<>>, values |-> <<>>]

\* handleFetchTabs up to the await inside fetchSheetTabs
handleFetchTabs ==
    /\ pc = "idle"
    /\ resps' = <<>>
    /\ IF spreadsheetId = ""
       THEN /\ outcome' = Thrown("Enter a Spreadsheet ID")
            /\ ui' = Rejected(ui, "Enter a Spreadsheet ID")
            /\ pc' = "done"
            /\ UNCHANGED <<grid, rowNumber, op, reqs, apiFaults, spreadsheetId, accessToken, tabs, prev>>
       ELSE IF accessToken = ""
       THEN /\ outcome' = Thrown("Google Token is required to access your sheet.")
            /\ ui' = Rejected(ui, "Google Token is required to access your sheet.")
            /\ pc' = "done"
            /\ UNCHANGED <<grid, rowNumber, op, reqs, apiFaults, spreadsheetId, accessToken, tabs, prev>>
       ELSE /\ op' = [NoOp EXCEPT !.call = "fetchSheetTabs",
                                  !.cleanId = extractSpreadsheetId(spreadsheetId),
                                  !.token = cleanToken(accessToken)]
            /\ reqs' = <<TabsRequest>>
            /\ ui' = StartStatus(ui, "FETCHING_SHEET")
            /\ pc' = "fetch_tabs"
            /\ UNCHANGED <<grid, rowNumber, outcome, apiFaults, spreadsheetId, accessToken, tabs, prev>>

\* catch: showNotification('error', error.message || 'Failed to load tabs.')
TabsThrow(message) ==
    /\ outcome' = Thrown(message)
    /\ ui' = FetchFailed(ui, IF Truthy(message) THEN message ELSE "Failed to load tabs.")
    /\ pc' = "done"
    /\ UNCHANGED <<grid, rowNumber, op, reqs, apiFaults, spreadsheetId, accessToken, tabs, prev>>

\* the response to the request of fetchSheetTabs
FetchTabsResponse ==
    /\ pc = "fetch_tabs"
    /\ \E response \in Responses :
        /\ resps' = Append(resps, response)
        /\ IF response.status # 200
           THEN TabsThrow(handleGoogleApiError(response, "Sheets API Error", op.cleanId))
           ELSE /\ tabs' = SheetTabs
                /\ outcome' = [NoOutcome EXCEPT !.state = "returned"]
                /\ ui' = SetStatus(Notify(ui, "success", "Sheet connected successfully."),
                                   "IDLE")
                /\ pc' = "done"
                /\ UNCHANGED <<grid, rowNumber, op, reqs, apiFaults, spreadsheetId, accessToken, prev>>

-----------------------------------------------------------------------------
(* generateKeywordIdeas, called by handleSearch of KeywordResearchModal *)

IdeasReturned(ideas) == [state |-> "returned", ideas |-> ideas, message |-> ""]
IdeasThrown(message) == [state |-> "thrown", ideas |-> <<>>, message |-> message]

\* the request was rejected or answered with a status that is not OK
RequestFailed(reply) == reply.kind = "rejected" \/ reply.status # 200

\* the body of an OK answer: JSON with ideas, JSON without, no text, no JSON
IdeasOfBody(reply) == IF reply.body = "ideas" THEN reply.ideas ELSE <<>>

\* services/geminiService.ts calling /api/keywords: every failure inside the
\* try block ends in `return []`
generateKeywordIdeas_Edge(reply) ==
    IF RequestFailed(reply) THEN IdeasReturned(<<>>)
    ELSE IF reply.body \in {"empty", "invalid"} THEN IdeasReturned(<<>>)
    ELSE IdeasReturned(IdeasOfBody(reply))

\* services/geminiService.ts calling the model itself: a missing key and a
\* failed request are thrown, an answer without text is an empty list
generateKeywordIdeas_Client(apiKey, reply) ==
    IF apiKey = "" THEN IdeasThrown("API Key is missing.")
    ELSE IF RequestFailed(reply)
    THEN IdeasThrown(IF reply.kind = "rejected" THEN "Failed to fetch"
                     ELSE "HTTP " \o ToString(reply.status))
    ELSE IF reply.body = "empty" THEN IdeasReturned(<<>>)
    ELSE IF reply.body = "invalid" THEN IdeasThrown("SyntaxError")
    ELSE IdeasReturned(IdeasOfBody(reply))

\* the implementations of the repository
Implementations == {"edge", "client"}

generateKeywordIdeas(impl, apiKey, reply) ==
    IF impl = "edge" THEN generateKeywordIdeas_Edge(reply)
    ELSE generateKeywordIdeas_Client(apiKey, reply)

\* the answers to a keyword request
KeywordReplies ==
    {[kind |-> "rejected", status |-> 0, body |-> "", ideas |-> <<>>]}
        \cup [kind : {"response"}, status : {429, 500}, body : {"", "invalid"},
              ideas : {<<>>}]
        \cup [kind : {"response"}, status : {200}, body : {"empty", "invalid", "none"},
              ideas : {<<>>}]
        \cup [kind : {"response"}, status : {200}, body : {"ideas"},
              ideas : {<<>>, <<"seo tips">>, <<"seo audit", "seo tools">>}]

SearchTerms == {"", "  ", "seo", "seo tips"}

\* handleSearch up to the await
handleSearch ==
    /\ ~ui.kw.isLoading
    /\ \E term \in SearchTerms :
          /\ Trim(term) # ""
          /\ ui' = [ui EXCEPT !.kw.isLoading = TRUE, !.kw.error = "", !.kw.term = term]
    /\ UNCHANGED <<grid, rowNumber, pc, op, reqs, outcome, apiFaults, spreadsheetId,
                   accessToken, tabs, resps, prev>>

\* setIdeas(results), or setError(...) in the catch; finally setIsLoading(false)
SearchDone(kw, result) ==
    [kw EXCEPT !.isLoading = FALSE,
               !.outcome = result,
               !.ideas = IF result.state = "returned" THEN result.ideas ELSE @,
               !.error = IF result.state = "thrown"
                         THEN "Failed to fetch suggestions. Please try again." ELSE @]

\* the request of generateKeywordIdeas is answered
KeywordResponse ==
    /\ ui.kw.isLoading
    /\ \E reply \in KeywordReplies, impl \in Implementations, apiKey \in {"", "key"} :
          ui' = [ui EXCEPT !.kw = SearchDone([ui.kw EXCEPT !.reply = reply, !.impl = impl],
                                            generateKeywordIdeas(impl, apiKey, reply))]
    /\ UNCHANGED <<grid, rowNumber, pc, op, reqs, outcome, apiFaults, spreadsheetId,
                   accessToken, tabs, resps, prev>>

-----------------------------------------------------------------------------
(* Specifications *)

\* the rows a tab can hold: no trailing empty cell (the API drops them)
CellValues == {"", " ", "a"}

RowsOfWidth(cells, w) ==
    {r \in UNION {[1..n -> cells] : n \in 0..w} : Len(r) = 0 \/ r[Len(r)] # ""}

\* header names of the tab in Init
SheetHeaders == {"Topic", "Title", "URL"}

\* header names of the header-resolution runs
HeaderPool ==
    {"  TOPIC ", "Source URL", "SEO Title", "Keyword", "Headline", "Tags",
     "Description", "targettopic", "LSI", "Niche", "Notes", ""}

\* the texts of the "Row #" input
RowInputs == {""} \cup {ToString(n) : n \in -1..(MaxRows + 1)}

Grids(headerRows, dataRows, maxRows) ==
    {TrimRows(<<h>> \o d) :
        h \in headerRows,
        d \in UNION {[1..n -> dataRows] : n \in 0..maxRows}}

\* the rows of distinct names
DistinctRows(names, w) ==
    {r \in RowsOfWidth(names, w) : \A i, j \in 1..Len(r) : r[i] = r[j] => i = j}

\* the number of cells of the rows that are not empty
FilledCells(rows) ==
    Cardinality({p \in UNION {{<<r, c>> : c \in 1..Len(rows[r])} : r \in 1..Len(rows)} :
                    rows[p[1]][p[2]] # ""})

\* a header row of distinct names over data rows that have cells under the
\* headers only
SheetGrids ==
    UNION {{TrimRows(<<h>> \o d) :
               d \in {x \in UNION {[1..n -> RowsOfWidth(CellValues, Len(h))] :
                                       n \in 0..MaxRows} :
                         FilledCells(x) <= MaxCells}} :
           h \in DistinctRows(SheetHeaders, MaxCols)}

\* one failure the API can answer any request with
OneFault == {[status |-> 500, statusText |-> "", errorMessage |-> "Quota exceeded"]}

Init ==
    /\ grid \in SheetGrids
    /\ rowNumber \in RowInputs
    /\ pc = "idle"
    /\ op = NoOp
    /\ reqs = <<>>
    /\ outcome = NoOutcome
    /\ apiFaults = OneFault
    /\ spreadsheetId = SheetUrl
    /\ accessToken \in AccessTokens
    /\ tabs = <<>>
    /\ resps = <<>>
    /\ prev = NoLast
    /\ ui = NoUi

\* a tab of any content, read by handleFetchTopic
NextFetch ==
    \/ handleFetchTopic
    \/ FetchHeadersResponse
    \/ FetchRowResponse
    \/ FetchDataResponse

Spec == Init /\ [][NextFetch]_vars

\* header resolution over many header rows: a tab with a header row only,
\* read by handleFetchTopic or written by handleSave
InitHeaders ==
    /\ grid \in Grids(RowsOfWidth(HeaderPool, MaxHdrCols), {<<>>}, 0)
    /\ rowNumber \in {"", "2"}
    /\ pc = "idle"
    /\ op = NoOp
    /\ reqs = <<>>
    /\ outcome = NoOutcome
    /\ apiFaults = OneFault
    /\ spreadsheetId = SheetUrl
    /\ accessToken \in AccessTokens
    /\ tabs = <<>>
    /\ resps = <<>>
    /\ prev = NoLast
    /\ ui \in {ShowResult(NoUi, r) : r \in SeoResults}

Next ==
    \/ handleFetchTopic
    \/ FetchHeadersResponse
    \/ FetchRowResponse
    \/ FetchDataResponse
    \/ handleSave
    \/ WriteHeadersResponse
    \/ WriteBatchResponse
    \/ WritePutResponse

SpecHeaders == InitHeaders /\ [][Next]_vars

\* the pastes of the token input: pads of up to MaxPad blanks around an
\* optionally quoted, optionally prefixed token, and one-member JSON objects
RECURSIVE Blanks(_)
Blanks(n) == IF n = 0 THEN "" ELSE " " \o Blanks(n - 1)

TokenPads == {Blanks(n) : n \in 0..MaxPad} \cup {"\t"}
TokenQuotes == {"", "\"", "'"}
TokenPrefixes ==
    {"", "Bearer  ", "bearer", "Authorization: ", "Authorization: Bearer ",
     "BearerBearer "}
TokenCores == {"ya29.abc", "ya 29"}

PlainTokens ==
    {pad \o q \o pre \o core \o q \o pad :
        pad \in TokenPads, q \in TokenQuotes, pre \in TokenPrefixes, core \in TokenCores}

JsonTokens ==
    {pad \o "{\"" \o key \o "\":" \o pad \o "\"" \o value \o "\"}" \o pad :
        pad \in TokenPads, key \in {"access_token", "token"},
        value \in {"", "ya29.abc", " Bearer ya29.abc", "ya 29"}}

TokenPool == PlainTokens \cup JsonTokens \cup {"", "{ya29.abc"}

\* a header row and one pending row
OneRowGrid == << <<"Topic", "Title">>, <<"a">> >>

\* every paste of the token input, on a small tab
InitToken ==
    /\ grid = OneRowGrid
    /\ rowNumber \in {"", "2"}
    /\ pc = "idle"
    /\ op = NoOp
    /\ reqs = <<>>
    /\ outcome = NoOutcome
    /\ apiFaults = OneFault
    /\ spreadsheetId = SheetUrl
    /\ accessToken \in TokenPool
    /\ tabs = <<>>
    /\ resps = <<>>
    /\ prev = NoLast
    /\ ui \in {ShowResult(NoUi, r) : r \in SeoResults}

\* a tab whose only header, "Tags", is in column n (0-based)
ColumnGrid(n) == << [i \in 1..(n + 1) |-> IF i = n + 1 THEN "Tags" ELSE ""] >>

\* a write to a tab whose header is in any column up to MaxIndex
InitColumns ==
    /\ grid \in {ColumnGrid(n) : n \in 0..MaxIndex}
    /\ rowNumber = "2"
    /\ pc = "idle"
    /\ op = NoOp
    /\ reqs = <<>>
    /\ outcome = NoOutcome
    /\ apiFaults = OneFault
    /\ spreadsheetId = SheetUrl
    /\ accessToken = "ya29.token"
    /\ tabs = <<>>
    /\ resps = <<>>
    /\ prev = NoLast
    /\ ui \in {ShowResult(NoUi, r) : r \in SeoResults}

NextWrite ==
    \/ handleSave
    \/ WriteHeadersResponse
    \/ WriteBatchResponse
    \/ WritePutResponse

SpecColumns == InitColumns /\ [][NextWrite]_vars

\* the texts of the sheet input: addresses with and without the parts
\* after the id, bare ids, the public template, texts without an id
IdPool ==
    {"", "  ", SheetUrl,
     "https://docs.google.com/spreadsheets/d/1AbC-d_9",
     "https://docs.google.com/spreadsheets/d/1AbC-d_9#gid=0",
     " https://docs.google.com/spreadsheets/d/1AbC-d_9/edit ",
     "1AbC-d_9", " 1AbC-d_9\t", "x/d//d/ab/c", "docs.google.com/d/",
     DEFAULT_SPREADSHEET_ID,
     " " \o DEFAULT_SPREADSHEET_ID \o " ",
     "https://docs.google.com/spreadsheets/d/" \o DEFAULT_SPREADSHEET_ID \o "/edit",
     "https://docs.google.com/spreadsheets/d/" \o DEFAULT_SPREADSHEET_ID \o "x/edit"}

\* every text of the sheet input, every failure of the API, on a small tab
InitErrors ==
    /\ grid = OneRowGrid
    /\ rowNumber \in {"", "2"}
    /\ pc = "idle"
    /\ op = NoOp
    /\ reqs = <<>>
    /\ outcome = NoOutcome
    /\ apiFaults = AllFaults
    /\ spreadsheetId \in IdPool
    /\ accessToken = "ya29.token"
    /\ tabs = <<>>
    /\ resps = <<>>
    /\ prev = NoLast
    /\ ui \in {ShowResult(NoUi, r) : r \in SeoResults}

NextApp ==
    \/ handleFetchTabs
    \/ FetchTabsResponse
    \/ handleFetchTopic
    \/ FetchHeadersResponse
    \/ FetchRowResponse
    \/ FetchDataResponse
    \/ handleSave
    \/ WriteHeadersResponse
    \/ WriteBatchResponse
    \/ WritePutResponse

SpecToken == InitToken /\ [][NextApp]_vars

SpecErrors == InitErrors /\ [][NextApp]_vars

\* The tab between two calls: another user of the sheet edits it while no
\* call is running.
EditRows == {<<"a", "u">>, <<"c", "", "t">>}

EditGrids == Grids({<<"Topic", "URL", "Title">>}, EditRows, MaxRows)

ExternalEdit ==
    /\ pc = "idle"
    /\ grid' \in EditGrids \ {grid}
    /\ UNCHANGED <<rowNumber, pc, op, reqs, outcome, apiFaults, spreadsheetId,
                   accessToken, tabs, resps, prev, ui>>

InitRepeat ==
    /\ grid \in EditGrids
    /\ rowNumber = ""
    /\ pc = "idle"
    /\ op = NoOp
    /\ reqs = <<>>
    /\ outcome = NoOutcome
    /\ apiFaults = OneFault
    /\ spreadsheetId = SheetUrl
    /\ accessToken = "ya29.token"
    /\ tabs = <<>>
    /\ resps = <<>>
    /\ prev = NoLast
    /\ ui = NoUi

\* calls of handleFetchTopic one after the other, on a tab that is edited
\* between them
NextRepeat ==
    \/ handleFetchTopic
    \/ FetchHeadersResponse
    \/ FetchRowResponse
    \/ FetchDataResponse
    \/ FinishCall
    \/ setRowNumber
    \/ ExternalEdit

SpecRepeat == InitRepeat /\ [][NextRepeat]_vars

\* The tab during a call: another user of the sheet edits it between the
\* header read of a call and its second request.
RaceRows == {<<>>, <<"a">>, <<"a", "b", "c">>}

RaceGrids ==
    Grids({<<"Topic", "URL", "Title">>, <<"Title", "Topic", "URL">>}, RaceRows, MaxRows)

ConcurrentEdit ==
    /\ pc \in {"fetch_row", "fetch_data", "write_batch", "write_put"}
    /\ grid' \in RaceGrids \ {grid}
    /\ UNCHANGED <<rowNumber, pc, op, reqs, outcome, apiFaults, spreadsheetId,
                   accessToken, tabs, resps, prev, ui>>

InitRace ==
    /\ grid \in RaceGrids
    /\ rowNumber \in {"", "2"}
    /\ pc = "idle"
    /\ op = NoOp
    /\ reqs = <<>>
    /\ outcome = NoOutcome
    /\ apiFaults = OneFault
    /\ spreadsheetId = SheetUrl
    /\ accessToken = "ya29.token"
    /\ tabs = <<>>
    /\ resps = <<>>
    /\ prev = NoLast
    /\ ui \in {ShowResult(NoUi, r) : r \in SeoResults}

NextRace ==
    \/ handleFetchTopic
    \/ FetchHeadersResponse
    \/ FetchRowResponse
    \/ FetchDataResponse
    \/ handleSave
    \/ WriteHeadersResponse
    \/ WriteBatchResponse
    \/ WritePutResponse
    \/ ConcurrentEdit

SpecRace == InitRace /\ [][NextRace]_vars

\* The loop of the sheet mode: fetch a topic, write the result on display,
\* fetch the next topic. Nobody else edits the tab.
LoopHeaders ==
    {<<"Topic", "Title">>, <<"Topic", "URL", "Metadata">>, <<"Query", "URL", "Title">>}

LoopRows == {<<>>, <<"a">>, <<"b", "u">>}

LoopGrids == Grids(LoopHeaders, LoopRows, MaxRows)

InitLoop ==
    /\ grid \in LoopGrids
    /\ rowNumber = ""
    /\ pc = "idle"
    /\ op = NoOp
    /\ reqs = <<>>
    /\ outcome = NoOutcome
    /\ apiFaults = OneFault
    /\ spreadsheetId = SheetUrl
    /\ accessToken = "ya29.token"
    /\ tabs = <<>>
    /\ resps = <<>>
    /\ prev = NoLast
    /\ ui \in {ShowResult(NoUi, r) : r \in {x \in SeoResults : x.seoTitle = "t"}}

NextLoop ==
    \/ handleFetchTopic
    \/ FetchHeadersResponse
    \/ FetchRowResponse
    \/ FetchDataResponse
    \/ handleSave
    \/ WriteHeadersResponse
    \/ WriteBatchResponse
    \/ WritePutResponse
    \/ FinishCall
    \/ setRowNumber

SpecLoop == InitLoop /\ [][NextLoop]_vars

\* The keyword research modal: searches one after the other.
InitKeywords ==
    /\ grid = OneRowGrid
    /\ rowNumber = ""
    /\ pc = "idle"
    /\ op = NoOp
    /\ reqs = <<>>
    /\ outcome = NoOutcome
    /\ apiFaults = OneFault
    /\ spreadsheetId = SheetUrl
    /\ accessToken = "ya29.token"
    /\ tabs = <<>>
    /\ resps = <<>>
    /\ prev = NoLast
    /\ ui = NoUi

NextKeywords ==
    \/ handleSearch
    \/ KeywordResponse

SpecKeywords == InitKeywords /\ [][NextKeywords]_vars

-----------------------------------------------------------------------------
(* Vocabulary of the properties *)

\* the header row and the cells of the tab as a user sees them
HeaderRow == IF Len(grid) >= 1 THEN grid[1] ELSE <<>>

\* row r (1-based), column c (0-based); an absent cell reads as empty
CellText(r, c) ==
    IF r >= 1 /\ r <= Len(grid) /\ c >= 0 /\ c < Len(grid[r])
    THEN grid[r][c + 1] ELSE ""

IsBlank(text) == \A i \in 1..Len(text) : CharAt(text, i) \in WhitespaceChars

\* two words with nothing or one whitespace character between them
Spaced(a, b) == {a \o b} \cup {a \o w \o b : w \in WhitespaceChars}

\* the accepted names of the read fields, lower case
TopicNames ==
    {"topic", "keyword", "query"} \cup Spaced("target", "topic")
        \cup Spaced("primary", "keyword") \cup Spaced("search", "query")
        \cup Spaced("content", "subject") \cup Spaced("main", "keyword")

SourceUrlNames ==
    {"url", "link", "website", "source"} \cup Spaced("sources/external", "url")
        \cup Spaced("external", "url") \cup Spaced("page", "url")
        \cup Spaced("source", "url") \cup Spaced("current", "url")

TitleNames ==
    {"title", "headline", "metadata"} \cup Spaced("seo", "title")
        \cup Spaced("page", "title") \cup Spaced("meta", "title")
        \cup Spaced("generated", "title")

\* a header as the matchers compare it: trimmed, lower case
NormalHeaders == [h \in HeaderPool \cup SheetHeaders |-> ToLowerCase(Trim(h))]

Normal(h) ==
    IF h \in DOMAIN NormalHeaders THEN NormalHeaders[h] ELSE ToLowerCase(Trim(h))

\* the columns (0-based) of a header row whose name is accepted
MatchingColumns(hs, names) ==
    {i - 1 : i \in {j \in 1..Len(hs) : Normal(hs[j]) \in names}}

\* the lowest of them, -1 when there is none
LowestMatch(hs, names) ==
    IF MatchingColumns(hs, names) = {} THEN -1
    ELSE SetMin(MatchingColumns(hs, names))

TopicColumn == LowestMatch(HeaderRow, TopicNames)
SourceUrlColumn == LowestMatch(HeaderRow, SourceUrlNames)
TitleColumn == LowestMatch(HeaderRow, TitleNames)

\* a data row with a topic and without a title
IsPending(r) == ~IsBlank(CellText(r, TopicColumn)) /\ IsBlank(CellText(r, TitleColumn))

PendingRows == {r \in 2..Len(grid) : IsPending(r)}

ReadContexts == {"Read Headers Error", "Read Row Error", "Read Data Error"}

\* the call ended because the API answered one of its reads with a failure
ReadFailed ==
    /\ outcome.state = "thrown"
    /\ \E f \in apiFaults, c \in ReadContexts :
          outcome.message = handleGoogleApiError(f, c, extractSpreadsheetId(spreadsheetId))

FetchDone == pc = "done" /\ op.call = "fetchTopicAndUrl"

\* fetchTopicAndUrl has ended and both of its reads were answered with 200
FetchDoneAfterReads == FetchDone /\ Len(reqs) = 2 /\ ~ReadFailed

-----------------------------------------------------------------------------
(* Properties of fetchTopicAndUrl *)

\* C1: auto mode (no row argument) returns the first pending data row, as
\* spreadsheet row number (0-based data index + 2), with its topic and url;
\* it throws the no-pending-rows error exactly when no data row is pending.
C1_AutoReturnsFirstPending ==
    (FetchDoneAfterReads /\ op.row = Undefined) =>
        IF PendingRows = {}
        THEN outcome = Thrown(NoPendingMessage(HeaderRow, TopicColumn, TitleColumn))
        ELSE LET first == SetMin(PendingRows)
             IN  /\ outcome = Returned(CellText(first, TopicColumn),
                                       CellText(first, SourceUrlColumn),
                                       Num(first))
                 /\ \A r \in 2..(first - 1) : ~IsPending(r)

\* an auto-mode call that skipped a finished row 2 and returned row 3
C1_Witness ==
    /\ FetchDoneAfterReads /\ op.row = Undefined
    /\ outcome.state = "returned" /\ outcome.row = Num(3)
    /\ ~IsBlank(CellText(2, TopicColumn))
    /\ ~IsBlank(CellText(2, TitleColumn))

\* C2 (as claimed): whatever row number n is supplied, the call reads exactly
\* row n, never the data range, and throws EmptyTopic on a blank topic cell
\* or else returns n with the topic and url cells of row n.
C2_ExplicitReadsRowN ==
    (FetchDoneAfterReads /\ op.row.t = "num") =>
        /\ reqs[2] = GetRequest(selectedTab \o "!" \o ToString(op.row.v)
                                             \o ":" \o ToString(op.row.v))
        /\ IF IsBlank(CellText(op.row.v, TopicColumn))
           THEN outcome = Thrown(EmptyTopicMessage(op.row, TopicColumn))
           ELSE outcome = Returned(CellText(op.row.v, TopicColumn),
                                   CellText(op.row.v, SourceUrlColumn),
                                   op.row)

\* C3: without a topic column the call throws the missing-topic error, in
\* explicit and in auto mode and whatever the data rows hold, and sends no
\* request after the header read.
C3_MissingTopicFailsFast ==
    (op.call = "fetchTopicAndUrl" /\ op.headerOk /\ TopicColumn = -1) =>
        /\ pc = "done"
        /\ outcome = Thrown(MissingTopicMessage(HeaderRow))
        /\ reqs = <<GetRequest(selectedTab \o "!1:1")>>

\* explicit mode on a tab with data rows and no topic column
C3_Witness ==
    /\ FetchDone /\ op.headerOk /\ TopicColumn = -1
    /\ op.row = Num(2)
    /\ Len(grid) >= 2 /\ Len(HeaderRow) >= 1
    /\ outcome.state = "thrown"

\* C4 (as claimed): with a topic column, the call throws the missing-title
\* error exactly when no row number was supplied and there is no title column.
C4_MissingTitleOnlyWithoutRow ==
    (FetchDone /\ op.headerOk /\ TopicColumn # -1) =>
        (outcome = Thrown(MissingTitleMessage)
            <=> (op.row = Undefined /\ TitleColumn = -1))

\* C5 (as claimed): every row returned by fetchTopicAndUrl is row 2 or below.
C5_ReturnedRowAtLeast2 ==
    (FetchDone /\ outcome.state = "returned") =>
        (outcome.row.t = "num" /\ outcome.row.v >= 2)

-----------------------------------------------------------------------------
(* Properties of the header resolution and of the write plan *)

\* the header row was read with 200 by the call in progress
FetchResolved == op.call = "fetchTopicAndUrl" /\ op.headerOk
WriteResolved == op.call = "writeSeoToSheet" /\ op.headerOk

\* C6: each read field resolves, independently of the others, to the lowest
\* column whose trimmed, lower-cased header is one of the field's accepted
\* names, and to "absent" (-1) when there is none; an absent url column is
\* no error: the call goes on to its second read.
C6_ReadFieldsLowestMatch ==
    FetchResolved =>
        /\ op.topicIndex = TopicColumn
        /\ op.urlIndex = SourceUrlColumn
        /\ op.titleIndex = TitleColumn
        /\ (SourceUrlColumn = -1 /\ TopicColumn # -1
                /\ (NumTruthy(op.row) \/ TitleColumn # -1))
             => (Len(reqs) = 2 /\ (outcome.state = "thrown" =>
                     outcome.message \notin {MissingTopicMessage(HeaderRow),
                                             MissingTitleMessage}))

\* the header row ["  TOPIC ", "Source URL", "SEO Title"] resolved to 0, 1, 2
C6_Witness ==
    /\ FetchResolved
    /\ HeaderRow = <<"  TOPIC ", "Source URL", "SEO Title">>
    /\ op.topicIndex = 0 /\ op.urlIndex = 1 /\ op.titleIndex = 2

\* the fields writeSeoToSheet writes and their accepted header names
WriteFields ==
    {"primaryKeyword", "seoTitle", "metaDescription", "secondaryKeywords",
     "tags", "category"}

WriteNames(field) ==
    CASE field = "primaryKeyword" ->
            {"primary keyword", "target keyword", "keyword", "topic",
             "search query", "main keyword"}
      [] field = "seoTitle" ->
            {"seo title", "title", "page title", "meta title", "headline"}
      [] field = "metaDescription" -> {"meta description", "description", "meta"}
      [] field = "secondaryKeywords" ->
            {"secondary keywords", "keywords", "lsi", "lsi keywords"}
      [] field = "tags" -> {"tags", "content tags"}
      [] field = "category" -> {"category", "categories", "niche"}

\* the write fields that some header of the tab names
MatchedWriteFields ==
    {f \in WriteFields : MatchingColumns(HeaderRow, WriteNames(f)) # {}}

\* the text written for a field: array fields joined in their given order
FieldText(data, field) ==
    CASE field = "primaryKeyword"    -> data.primaryKeyword
      [] field = "seoTitle"          -> data.seoTitle
      [] field = "metaDescription"   -> data.metaDescription
      [] field = "secondaryKeywords" -> Join(data.secondaryKeywords, ", ")
      [] field = "tags"              -> Join(data.tags, ", ")
      [] field = "category"          -> Join(data.category, ", ")

\* the one-cell entry for a field at a column (0-based) of the target row
CellEntry(field, column) ==
    [range  |-> selectedTab \o "!" \o getColumnLetter(column) \o ToString(op.row.v),
     values |-> << <<FieldText(op.data, field)>> >>]

\* writeSeoToSheet has read the header row and has built its write request
WritePlanned == WriteResolved /\ Len(reqs) = 2

\* C7: when some header names a write field, the write request is the batch
\* update with exactly one entry for each named field and no other entry,
\* each at a column naming that field in the target row and holding the
\* field's text (arrays joined with ", " in their given order); there is no
\* B..F entry.
C7_MappedPlan ==
    WritePlanned =>
        LET matched == MatchedWriteFields
        IN  matched # {} =>
                /\ reqs[2].method = "POST"
                /\ reqs[2].path = "values:batchUpdate"
                /\ reqs[2].values = <<>>
                /\ Len(reqs[2].data) = Cardinality(matched)
                /\ \A f \in matched :
                      \E c \in MatchingColumns(HeaderRow, WriteNames(f)) :
                          \E i \in 1..Len(reqs[2].data) :
                              reqs[2].data[i] = CellEntry(f, c)

\* headers [Keyword, Notes, Tags], row 2: two entries, A2 and C2, with the
\* tags joined in their given order
C7_Witness ==
    /\ WritePlanned
    /\ HeaderRow = <<"Keyword", "Notes", "Tags">>
    /\ reqs[2].data = << [range |-> "Sheet1!A2", values |-> << <<"k2">> >>],
                         [range |-> "Sheet1!C2", values |-> << <<"y, x">> >>] >>

\* C8: when no header names a write field, the write request is the single
\* update of <tab>!B<row>:F<row> with five values in the order
\* primaryKeyword, seoTitle, secondaryKeywords joined, metaDescription,
\* tags joined; category is not among them.
C8_FallbackPlan ==
    (WritePlanned /\ MatchedWriteFields = {}) =>
        reqs[2] = [method |-> "PUT",
                   path |-> "values/" \o selectedTab \o "!B" \o ToString(op.row.v)
                                \o ":F" \o ToString(op.row.v),
                   valueInputOption |-> "USER_ENTERED",
                   data |-> <<>>,
                   values |-> << <<op.data.primaryKeyword, op.data.seoTitle,
                                   Join(op.data.secondaryKeywords, ", "),
                                   op.data.metaDescription,
                                   Join(op.data.tags, ", ")>> >>]

\* headers [Notes], row 2: the five values go to B2:F2
C8_Witness ==
    /\ WritePlanned
    /\ HeaderRow = <<"Notes">>
    /\ op.data.category = <<"c2", "c1">>
    /\ reqs[2].path = "values/Sheet1!B2:F2"
    /\ reqs[2].values = << <<"k", "t", "b, a, b", "d", "x">> >>

\* C9 (as claimed): the entry written for a field is at the first (leftmost)
\* column whose header names that field.
C9_WriteFieldsFirstMatch ==
    (WritePlanned /\ MatchedWriteFields # {}) =>
        \A f \in MatchedWriteFields :
            \E i \in 1..Len(reqs[2].data) :
                reqs[2].data[i] =
                    CellEntry(f, LowestMatch(HeaderRow, WriteNames(f)))

\* the columns the header row resolves to: the side of the call in progress
\* as the call resolved it, the other side as its call resolves the same row
ReadAssigned ==
    LET idx == IF op.call = "fetchTopicAndUrl"
               THEN <<op.topicIndex, op.urlIndex, op.titleIndex>>
               ELSE <<FindIndex(op.headers, TopicRegex),
                      FindIndex(op.headers, UrlRegex),
                      FindIndex(op.headers, TitleRegex)>>
    IN  {p \in {<<"topic", idx[1]>>, <<"sourceUrl", idx[2]>>, <<"title", idx[3]>>} :
            p[2] # -1}

WriteAssigned ==
    LET mapping == IF op.call = "writeSeoToSheet"
                   THEN op.columnMapping
                   ELSE MapHeaders(op.headers, 1, <<>>)
    IN  {<<mapping[i].key, LetterIndex(mapping[i].letter)>> : i \in 1..Len(mapping)}

\* no column is assigned to two fields of the set
OneFieldPerColumn(assigned) ==
    \A p \in assigned, q \in assigned : p[2] = q[2] => p = q

\* C10 (as claimed): no column is assigned to more than one of the nine
\* fields the code resolves.
C10_NoColumnInTwoFields ==
    op.headerOk => OneFieldPerColumn(ReadAssigned \cup WriteAssigned)

\* C10 (amended): no column is assigned to two read fields and no column is
\* assigned to two write fields; a column may be assigned to one read field
\* and one write field at once.
C10_NoColumnInTwoFieldsOfOneSide ==
    op.headerOk =>
        /\ OneFieldPerColumn(ReadAssigned)
        /\ OneFieldPerColumn(WriteAssigned)

\* headers [Keyword, SEO Title]: column 0 is topic and primaryKeyword,
\* column 1 is title and seoTitle
C10_Witness ==
    /\ WriteResolved
    /\ HeaderRow = <<"Keyword", "SEO Title">>
    /\ ReadAssigned = {<<"topic", 0>>, <<"title", 1>>}
    /\ WriteAssigned = {<<"primaryKeyword", 0>>, <<"seoTitle", 1>>}

-----------------------------------------------------------------------------
(* Properties of the helpers of sheetsService.ts *)

\* a service call has computed its token from the text of the token input
TokenCleaned == op.call # "none" /\ op.token = cleanToken(accessToken)

\* the text starts with the word, whatever the case
StartsWithWord(s, word) ==
    Len(s) >= Len(word) /\ ToLowerCase(SubSeq(s, 1, Len(word))) = word

\* C11 (as claimed): the token a call sends is a fixed point of the
\* normalization: normalizing it again gives the same token.
C11_CleanTokenIdempotent ==
    TokenCleaned => cleanToken(op.token) = op.token

\* the text of the token input is no JSON object
NotJson(s) == ~StartsWithBrace(Trim(s))

\* C12 (as claimed): for a paste that is not JSON the token a call sends has
\* no quote, no whitespace and no Authorization: or Bearer prefix, and the
\* paste ' Bearer  ya29.abc ' gives 'ya29.abc'.
C12_CleanTokenIsBare ==
    (TokenCleaned /\ NotJson(accessToken)) =>
        /\ \A i \in 1..Len(op.token) :
              CharAt(op.token, i) \notin {"\"", "'"} \cup WhitespaceChars
        /\ ~StartsWithWord(op.token, "authorization:")
        /\ ~StartsWithWord(op.token, "bearer")
        /\ (accessToken = " Bearer  ya29.abc " => op.token = "ya29.abc")

\* the standard name of column n (0-based), for names of up to three
\* letters: A..Z, then AA..ZZ, then AAA..
Letter(k) == CharAt(UpperChars, k + 1)

StandardName(n) ==
    IF n < 26 THEN Letter(n)
    ELSE IF n < 702 THEN Letter((n - 26) \div 26) \o Letter((n - 26) % 26)
    ELSE Letter((n - 702) \div 676) \o Letter(((n - 702) \div 26) % 26)
            \o Letter((n - 702) % 26)

\* a comes before b in the standard order: shorter names first, names of
\* one length in alphabetical order
NameBefore(a, b) ==
    \/ Len(a) < Len(b)
    \/ /\ Len(a) = Len(b)
       /\ \E k \in 1..Len(a) :
            /\ SubSeq(a, 1, k - 1) = SubSeq(b, 1, k - 1)
            /\ LetterOrdinal[CharAt(a, k)] < LetterOrdinal[CharAt(b, k)]

\* the letters getColumnLetter gives to the indices of the bound
ColumnLetters == [m \in 0..MaxIndex |-> getColumnLetter(m)]

\* the column (0-based) of the only header of the tab
HeaderColumn == Len(HeaderRow) - 1

\* C13: the letters writeSeoToSheet computes for column n are the standard
\* name of column n (A for 0, Z for 25, AA for 26, ZZ for 701, AAA for 702);
\* no other index of the bound gets the same letters, and the letters of a
\* lower index come before them in the standard order.
C13_ColumnLetterBijection ==
    (WriteResolved /\ Len(op.columnMapping) = 1 /\ HeaderColumn <= MaxIndex) =>
        /\ op.columnMapping[1].letter = StandardName(HeaderColumn)
        /\ HeaderColumn = 0 => op.columnMapping[1].letter = "A"
        /\ HeaderColumn = 25 => op.columnMapping[1].letter = "Z"
        /\ HeaderColumn = 26 => op.columnMapping[1].letter = "AA"
        /\ HeaderColumn = 701 => op.columnMapping[1].letter = "ZZ"
        /\ \A m \in 0..MaxIndex :
              /\ m # HeaderColumn => ColumnLetters[m] # op.columnMapping[1].letter
              /\ m < HeaderColumn <=>
                    NameBefore(ColumnLetters[m], op.columnMapping[1].letter)

\* the header in column 702, the first with a three-letter name
C13_Witness ==
    /\ WritePlanned
    /\ HeaderColumn = 702
    /\ op.columnMapping[1].letter = "AAA"
    /\ reqs[2].data[1].range = "Sheet1!AAA2"

\* the positions of the sheet input where "/d/" and a character of an id
\* follow
IdStarts ==
    {i \in 1..Len(spreadsheetId) :
        /\ i + 3 <= Len(spreadsheetId)
        /\ SubSeq(spreadsheetId, i, i + 2) = "/d/"
        /\ IsIdChar(CharAt(spreadsheetId, i + 3))}

\* the positions of the sheet input where "/d/", a text without "/" and a
\* "/" follow: /d/<ID>/
SegmentStarts ==
    {i \in 1..Len(spreadsheetId) :
        /\ i + 3 <= Len(spreadsheetId)
        /\ SubSeq(spreadsheetId, i, i + 2) = "/d/"
        /\ CharAt(spreadsheetId, i + 3) # "/"
        /\ \E j \in (i + 4)..Len(spreadsheetId) : CharAt(spreadsheetId, j) = "/"}

\* the text between position i + 3 and the next "/"
SegmentAt(i) ==
    SubSeq(spreadsheetId, i + 3,
           SetMin({j \in (i + 4)..Len(spreadsheetId) : CharAt(spreadsheetId, j) = "/"}) - 1)

\* text is a run of id characters at position i that cannot be extended
IsIdRunAt(text, i) ==
    /\ text = SubSeq(spreadsheetId, i, i + Len(text) - 1)
    /\ i + Len(text) - 1 <= Len(spreadsheetId)
    /\ \A k \in 1..Len(text) : IsIdChar(CharAt(text, k))
    /\ (i + Len(text) <= Len(spreadsheetId)
            => ~IsIdChar(CharAt(spreadsheetId, i + Len(text))))

\* a service call has extracted the id from the text of the sheet input
IdExtracted == op.call # "none"

\* C14 (as claimed): the id is <ID> when the input contains /d/<ID>/, and
\* the trimmed input otherwise.
C14_ExtractionInvariant ==
    IdExtracted =>
        IF SegmentStarts # {}
        THEN op.cleanId = SegmentAt(SetMin(SegmentStarts))
        ELSE op.cleanId = Trim(spreadsheetId)

\* C14 (amended): when the input contains "/d/" followed by a character of
\* [a-zA-Z0-9-_], the id is the longest run of such characters after the
\* first such "/d/", whether or not a "/" follows; otherwise it is the
\* trimmed input.
C14_ExtractionOfIdRun ==
    IdExtracted =>
        IF IdStarts # {}
        THEN IsIdRunAt(op.cleanId, SetMin(IdStarts) + 3)
        ELSE op.cleanId = Trim(spreadsheetId)

\* an address that ends with the id, and a bare id between blanks
C14_Witness ==
    /\ IdExtracted
    /\ \/ /\ spreadsheetId = "https://docs.google.com/spreadsheets/d/1AbC-d_9"
          /\ op.cleanId = "1AbC-d_9"
       \/ /\ spreadsheetId = " 1AbC-d_9\t"
          /\ op.cleanId = "1AbC-d_9"

-----------------------------------------------------------------------------
(* Properties of the failures *)

\* the context the call gives to handleGoogleApiError for its k-th response;
\* "" for the header response of writeSeoToSheet, which is not passed to it
ErrorContext(k) ==
    CASE op.call = "fetchSheetTabs" -> "Sheets API Error"
      [] op.call = "fetchTopicAndUrl" /\ k = 1 -> "Read Headers Error"
      [] op.call = "fetchTopicAndUrl" /\ k = 2 /\ NumTruthy(op.row) -> "Read Row Error"
      [] op.call = "fetchTopicAndUrl" /\ k = 2 /\ ~NumTruthy(op.row) -> "Read Data Error"
      [] op.call = "writeSeoToSheet" /\ k = 2 /\ reqs[2].method = "POST" -> "Batch update failed"
      [] op.call = "writeSeoToSheet" /\ k = 2 /\ reqs[2].method = "PUT" -> "Fallback update failed"
      [] OTHER -> ""

\* the service's own message of a response: error.message of the body, or
\* else the status text; "HTTP <status>" when there is neither and the body
\* cannot be read
ServiceMessage(response) ==
    IF Truthy(response.errorMessage) THEN response.errorMessage
    ELSE IF response.statusText # "" THEN response.statusText
    ELSE IF response.errorMessage = UNDEF THEN "HTTP " \o ToString(response.status)
    ELSE ""

TemplateMessage ==
    "Permission denied (403). You are trying to access the Read-Only Template. Please make a copy of the sheet and use YOUR Spreadsheet ID."

GenericPermissionMessage ==
    "Permission denied (403). The Google Account used to generate the token does NOT have access to this Sheet. Please check your Spreadsheet Share permissions."

\* the error of a status: auth, permission (either text), not found, remote
ErrorOfStatus(response) ==
    CASE response.status = 401 ->
            {"Access Token expired or invalid. Please generate a new one."}
      [] response.status = 403 -> {TemplateMessage, GenericPermissionMessage}
      [] response.status = 404 -> {"Spreadsheet not found. Check the ID."}
      [] OTHER -> {ServiceMessage(response)}

\* the last response was a failure that the call passed to handleGoogleApiError
NormalizedFailure ==
    /\ Len(resps) >= 1
    /\ resps[Len(resps)].status # 200
    /\ ErrorContext(Len(resps)) # ""

\* C15: a non-2xx response that is passed to handleGoogleApiError ends the
\* call with one error whose text is decided by the status: auth for 401,
\* permission for 403, not found for 404, and for any other status the
\* service's own message; the call sends nothing more, returns no data and
\* leaves the tab as it is.
C15_FailureClassifiedByStatus ==
    NormalizedFailure =>
        /\ pc = "done"
        /\ outcome.state = "thrown"
        /\ \E text \in ErrorOfStatus(resps[Len(resps)]) :
              outcome.message = ErrorContext(Len(resps)) \o ": " \o text
        /\ Len(reqs) = Len(resps)
        /\ outcome.topic = "" /\ outcome.url = "" /\ outcome.row = Undefined
        /\ tabs = <<>>
        /\ grid = OneRowGrid

\* a 500 whose body carries error.message, answered to the batch update
C15_Witness ==
    /\ NormalizedFailure
    /\ op.call = "writeSeoToSheet"
    /\ resps[2].status = 500 /\ resps[2].errorMessage = "Quota exceeded"
    /\ outcome.message = "Batch update failed: Quota exceeded"

\* C16: a 403 gives the text about the read-only template exactly when the
\* id extracted from the sheet input is the id of the public template, and
\* the generic permission text for every other id.
C16_TemplateMessageIffTemplateId ==
    (NormalizedFailure /\ resps[Len(resps)].status = 403) =>
        outcome.message = ErrorContext(Len(resps)) \o ": "
            \o (IF \/ Trim(spreadsheetId) = DEFAULT_SPREADSHEET_ID
                   \/ spreadsheetId = "https://docs.google.com/spreadsheets/d/"
                                          \o DEFAULT_SPREADSHEET_ID \o "/edit"
                THEN TemplateMessage ELSE GenericPermissionMessage)

\* the template given by its address, answered with 403
C16_Witness ==
    /\ NormalizedFailure /\ resps[Len(resps)].status = 403
    /\ spreadsheetId = "https://docs.google.com/spreadsheets/d/"
                           \o DEFAULT_SPREADSHEET_ID \o "/edit"
    /\ outcome.message = "Read Headers Error: " \o TemplateMessage

\* C17 (as claimed): when the header read of writeSeoToSheet is answered
\* with a failure, the call ends with an error and sends no write request.
C17_HeaderFailureStopsWrite ==
    (op.call = "writeSeoToSheet" /\ Len(resps) >= 1 /\ resps[1].status # 200) =>
        /\ pc = "done"
        /\ outcome.state = "thrown"
        /\ Len(reqs) = 1

-----------------------------------------------------------------------------
(* Properties of the requests of one call *)

\* the requests of the running call that are not reads
WriteRequests == {k \in 1..Len(reqs) : reqs[k].method # "GET"}

\* C18: a call of writeSeoToSheet that has its header response has sent
\* exactly one write request, as its second request: the PUT of one range
\* when no header names a write field, the POST of the batch when one or
\* more do, both as USER_ENTERED; a failed write ends the call with one
\* error and no further request.
C18_OneWriteRequest ==
    op.call = "writeSeoToSheet" =>
        /\ Len(resps) = 0 => WriteRequests = {}
        /\ Len(resps) >= 1 => (WriteRequests = {2} /\ Len(reqs) = 2)
        /\ WritePlanned =>
              /\ reqs[2].valueInputOption = "USER_ENTERED"
              /\ IF MatchedWriteFields = {}
                 THEN reqs[2].method = "PUT" /\ Len(reqs[2].values) = 1
                 ELSE /\ reqs[2].method = "POST"
                      /\ Len(reqs[2].data) = Cardinality(MatchedWriteFields)
        /\ (Len(resps) = 2 /\ resps[2].status # 200) =>
              (pc = "done" /\ outcome.state = "thrown" /\ Len(reqs) = 2)

\* a plan of exactly one entry, sent as a batch and answered with a failure
C18_Witness ==
    /\ WritePlanned
    /\ HeaderRow = <<"Notes", "Tags">>
    /\ reqs[2].method = "POST" /\ Len(reqs[2].data) = 1
    /\ Len(resps) = 2 /\ resps[2].status # 200
    /\ outcome.state = "thrown"

\* the running call waits for a response
Awaiting ==
    pc \in {"fetch_tabs", "fetch_headers", "fetch_row", "fetch_data",
            "write_headers", "write_batch", "write_put"}

\* C19 (as claimed): the requests of a call are sent one after the other, a
\* request only after the response to the one before; fetchSheetTabs sends
\* at most 1, fetchTopicAndUrl and writeSeoToSheet at most 2; no request is
\* sent twice.
C19_SequentialNoRepeat ==
    /\ Len(reqs) = Len(resps) + (IF Awaiting THEN 1 ELSE 0)
    /\ op.call = "fetchSheetTabs" => Len(reqs) <= 1
    /\ op.call = "fetchTopicAndUrl" => Len(reqs) <= 2
    /\ op.call = "writeSeoToSheet" => Len(reqs) <= 2
    /\ \A j \in 1..Len(reqs), k \in 1..Len(reqs) : reqs[j] = reqs[k] => j = k

-----------------------------------------------------------------------------
(* Properties of calls one after the other *)

\* every response of the running call was a success
AllOk == \A k \in 1..Len(resps) : resps[k].status = 200

\* fetchTopicAndUrl without a row argument has ended after its two reads
AutoDone == FetchDone /\ op.row = Undefined /\ Len(resps) = 2 /\ AllOk

\* the call finished last was such a call too
LastAuto ==
    prev.call = "fetchTopicAndUrl" /\ prev.row = Undefined /\ prev.ok

\* C20: auto mode keeps nothing from one call to the next: on the sheet the
\* call before saw, the call returns (or throws) what that call did; on an
\* edited sheet the result is the first pending row of the sheet as it is
\* now, with the topic and url of that row, whatever the call before
\* returned: a row whose title was filled is not returned again, an earlier
\* row that became pending is.
C20_AutoModeStateless ==
    AutoDone =>
        /\ (LastAuto /\ prev.grid = grid) => outcome = prev.outcome
        /\ IF PendingRows = {}
           THEN outcome.state = "thrown"
           ELSE outcome = Returned(CellText(SetMin(PendingRows), TopicColumn),
                                   CellText(SetMin(PendingRows), SourceUrlColumn),
                                   Num(SetMin(PendingRows)))
        /\ (LastAuto /\ prev.outcome.state = "returned"
                /\ prev.outcome.row.v \notin PendingRows)
              => outcome.row # prev.outcome.row

\* the call before returned row 3; row 2 became pending by an edit and is
\* what this call returns
C20_Witness ==
    /\ AutoDone /\ LastAuto
    /\ prev.outcome.state = "returned" /\ prev.outcome.row = Num(3)
    /\ prev.grid # grid
    /\ 3 \in PendingRows
    /\ outcome.state = "returned" /\ outcome.row = Num(2)

-----------------------------------------------------------------------------
(* Properties of a call on a tab that is edited while the call is running *)

\* the columns (0-based) the call resolved from the header row it read
ReadTopicColumn == LowestMatch(op.headers, TopicNames)
ReadSourceUrlColumn == LowestMatch(op.headers, SourceUrlNames)
ReadTitleColumn == LowestMatch(op.headers, TitleNames)

\* the data rows that are pending by those columns
ReadPendingRows ==
    {r \in 2..Len(grid) : /\ ~IsBlank(CellText(r, ReadTopicColumn))
                          /\ IsBlank(CellText(r, ReadTitleColumn))}

\* the header row of the tab is no longer the one the call read
HeaderEdited == op.headerOk /\ op.headers # HeaderRow

\* C21: an edit of the tab between the header read and the second request
\* of a call is neither detected nor a reason to fail: when both requests
\* are answered with 200, the row read (explicit row), the scan (auto mode)
\* and the write use the columns resolved from the header row as it was
\* read, whatever the header row of the tab is by then.
C21_StaleColumnsApplied ==
    /\ (FetchDone /\ Len(resps) = 2 /\ AllOk /\ NumTruthy(op.row)) =>
          outcome = IF IsBlank(CellText(op.row.v, ReadTopicColumn))
                    THEN Thrown(EmptyTopicMessage(op.row, ReadTopicColumn))
                    ELSE Returned(CellText(op.row.v, ReadTopicColumn),
                                  CellText(op.row.v, ReadSourceUrlColumn), op.row)
    /\ (FetchDone /\ Len(resps) = 2 /\ AllOk /\ ~NumTruthy(op.row)) =>
          IF ReadPendingRows = {}
          THEN outcome = Thrown(NoPendingMessage(op.headers, ReadTopicColumn,
                                                 ReadTitleColumn))
          ELSE outcome = Returned(CellText(SetMin(ReadPendingRows), ReadTopicColumn),
                                  CellText(SetMin(ReadPendingRows), ReadSourceUrlColumn),
                                  Num(SetMin(ReadPendingRows)))
    /\ (op.call = "writeSeoToSheet" /\ pc = "done" /\ Len(resps) = 2 /\ AllOk) =>
          /\ outcome.state = "returned"
          /\ op.headerOk =>
                \A f \in WriteFields :
                    \A c \in MatchingColumns(op.headers, WriteNames(f)) :
                        CellText(op.row.v, c) = FieldText(op.data, f)

\* row 2 was read after the header row had changed from [Topic, URL, Title]
\* to [Title, Topic, URL]: the topic returned is the cell under "Title"
C21_Witness ==
    /\ FetchDone /\ Len(resps) = 2 /\ AllOk /\ NumTruthy(op.row)
    /\ HeaderEdited
    /\ ReadTopicColumn = 0 /\ TopicColumn = 1
    /\ outcome.state = "returned"
    /\ outcome.topic = CellText(2, 0)
    /\ outcome.topic # CellText(2, TopicColumn)

-----------------------------------------------------------------------------
(* Properties of the messages *)

\* text s has part as a run of consecutive characters
Contains(s, part) ==
    \E i \in 1..(Len(s) - Len(part) + 1) : SubSeq(s, i, i + Len(part) - 1) = part

\* fetchTopicAndUrl ended after a 200 header read without a second request:
\* a required column is missing
MissingColumn == FetchDone /\ op.headerOk /\ Len(reqs) = 1

\* C22 (as claimed): a MissingColumn failure names the missing field and
\* every header name found in the sheet.
C22_MissingColumnListsHeaders ==
    MissingColumn =>
        /\ outcome.state = "thrown"
        /\ Contains(outcome.message,
                    IF TopicColumn = -1 THEN "'Topic'" ELSE "'SEO Title'")
        /\ \A c \in 1..Len(HeaderRow) :
              HeaderRow[c] # "" => Contains(outcome.message, HeaderRow[c])

-----------------------------------------------------------------------------
(* Properties of one flow of the user interface *)

InProgress == {"FETCHING_SHEET", "WRITING_SHEET"}

FetchAwaiting == pc \in {"fetch_tabs", "fetch_headers", "fetch_row", "fetch_data"}
WriteAwaiting == pc \in {"write_headers", "write_batch", "write_put"}

\* the handler got past its guards and called the service function
FlowStarted == Len(ui.trace) >= 1 /\ ui.trace[1] \in InProgress

\* C23: a flow that calls its service function sets one in-progress status
\* (FETCHING_SHEET; WRITING_SHEET with isWriting) and keeps it while the call
\* is awaited; when the call has returned or thrown, the flow has set exactly
\* one more status (IDLE after a fetch, SUCCESS or ERROR after a write),
\* isWriting is off, there is one notification of the kind of the outcome,
\* and no further request is sent.
C23_OneStatusOneOutcome ==
    /\ FetchAwaiting => (ui.trace = <<"FETCHING_SHEET">> /\ ui.status = "FETCHING_SHEET")
    /\ WriteAwaiting => (ui.trace = <<"WRITING_SHEET">> /\ ui.status = "WRITING_SHEET"
                            /\ ui.isWriting)
    /\ (pc = "done" /\ FlowStarted) =>
          /\ ui.status \notin InProgress
          /\ ~ui.isWriting
          /\ ui.status = ui.trace[Len(ui.trace)]
          /\ ui.trace \in {<<"FETCHING_SHEET", "IDLE">>,
                           IF outcome.state = "returned"
                           THEN <<"WRITING_SHEET", "SUCCESS">>
                           ELSE <<"WRITING_SHEET", "ERROR">>}
          /\ outcome.state \in {"returned", "thrown"}
          /\ ui.note.type = (IF outcome.state = "returned" THEN "success" ELSE "error")
          /\ Len(reqs) <= 2 /\ Len(resps) = Len(reqs)

\* a write whose batch update failed: WRITING_SHEET, then ERROR
C23_Witness ==
    /\ pc = "done" /\ op.call = "writeSeoToSheet"
    /\ Len(resps) = 2 /\ resps[2].status # 200
    /\ ui.trace = <<"WRITING_SHEET", "ERROR">>
    /\ ~ui.isWriting

\* C24 (as claimed): when a flow fails, the message shown to the user is the
\* message of the error the operation threw.
C24_FailureShownVerbatim ==
    (pc = "done" /\ outcome.state = "thrown") =>
        ui.note = [type |-> "error", message |-> outcome.message]

-----------------------------------------------------------------------------
(* Properties of the keyword research *)

\* C25 (as claimed): when the keyword request is rejected or answered with
\* a status that is not OK, generateKeywordIdeas returns the empty list, in
\* every implementation.
C25_KeywordFailureIsEmptyList ==
    (~ui.kw.isLoading /\ RequestFailed(ui.kw.reply) /\ ui.kw.reply.kind # "none") =>
        ui.kw.outcome = IdeasReturned(<<>>)

-----------------------------------------------------------------------------
(* Properties of the loop fetch, write, fetch *)

\* the call finished last was a write that succeeded for the row the auto
\* mode fetch before it returned
WroteFetchedRow ==
    /\ prev.call = "writeSeoToSheet" /\ prev.ok
    /\ prev.outcome.state = "returned"
    /\ prev.row = prev.fetched

\* C26 (as claimed): after auto mode returned row r and the write for row r
\* succeeded (the seoTitle written is not blank), the next auto mode call
\* does not return r again.
C26_WrittenRowNotReturnedAgain ==
    (AutoDone /\ WroteFetchedRow /\ outcome.state = "returned") =>
        outcome.row # prev.row

\* a cell of a tab g: row r (1-based), column c (0-based)
CellIn(g, r, c) ==
    IF r >= 1 /\ r <= Len(g) /\ c >= 0 /\ c < Len(g[r]) THEN g[r][c + 1] ELSE ""

\* this step is the return of a write that succeeded
WriteSucceeds ==
    /\ op.call = "writeSeoToSheet" /\ WriteAwaiting
    /\ pc' = "done" /\ outcome'.state = "returned"

\* C27 (as claimed): a write that succeeds leaves the topic cell and the
\* source url cell of its target row as they were.
C27_WriteKeepsInputCells ==
    [][WriteSucceeds =>
          /\ CellIn(grid', op.row.v, TopicColumn) = CellText(op.row.v, TopicColumn)
          /\ CellIn(grid', op.row.v, SourceUrlColumn) = CellText(op.row.v, SourceUrlColumn)
      ]_vars

\* the first rows of the ranges of the write request
WrittenRows ==
    IF reqs[2].method = "PUT" THEN {ParseRange(reqs[2].path).top}
    ELSE {ParseRange(reqs[2].data[i].range).top : i \in 1..Len(reqs[2].data)}

\* C28 (as claimed): every range writeSeoToSheet sends addresses a row >= 2,
\* and the header row of the tab is never changed by a write.
C28_WritesBelowHeaderRow ==
    (op.call = "writeSeoToSheet" /\ Len(reqs) = 2) =>
        /\ \A r \in WrittenRows : r >= 2
        /\ (prev.call # "" /\ pc = "done") => HeaderRow = prev.grid[1]


-----------------------------------------------------------------------------
(* handleGenerate of App, beside the flows of the sheet *)

MaxGens == 2

\* the data generateSeoData resolves with
GeneratedResults == {x \in SeoResults : x.seoTitle = "t"}

\* the messages generateSeoData rejects with
GenerateErrors == {"", "API Key is missing."}

\* ui.gens without its k-th request
WithoutGen(gens, k) == SubSeq(gens, 1, k - 1) \o SubSeq(gens, k + 1, Len(gens))

\* handleGenerate up to the await of generateSeoData. The form is submitted
\* through its button, which is disabled while status is GENERATING.
handleGenerate ==
    /\ ui.status # "GENERATING"
    /\ ui.genCount < MaxGens
    /\ ui' = IF ui.topic = ""
             THEN Rejected(ui, "Please enter a topic first.")
             ELSE [StartStatus(ui, "GENERATING")
                       EXCEPT !.hasResult = FALSE, !.result = NoData,
                              !.resultRow = Undefined, !.resultGen = 0,
                              !.genCount = @ + 1,
                              !.gens = Append(@, [id |-> ui.genCount + 1,
                                                  topic |-> ui.topic,
                                                  row |-> ui.topicRow])]
    /\ UNCHANGED <<grid, rowNumber, pc, op, reqs, outcome, apiFaults, spreadsheetId,
                   accessToken, tabs, resps, prev>>

\* generateSeoData resolves for a request in flight: setResult(data),
\* setStatus(SUCCESS), the notification
GenerateResolve ==
    \E k \in 1..Len(ui.gens), data \in GeneratedResults :
        /\ ui' = Notify(SetStatus([ShowResult(ui, data)
                                       EXCEPT !.resultRow = ui.gens[k].row,
                                              !.resultGen = ui.gens[k].id,
                                              !.gens = WithoutGen(@, k)],
                                  "SUCCESS"),
                        "success", "SEO Data generated successfully.")
        /\ UNCHANGED <<grid, rowNumber, pc, op, reqs, outcome, apiFaults, spreadsheetId,
                       accessToken, tabs, resps, prev>>

\* generateSeoData rejects for a request in flight: setStatus(ERROR), the
\* notification
GenerateReject ==
    \E k \in 1..Len(ui.gens), message \in GenerateErrors :
        /\ ui' = Notify(SetStatus([ui EXCEPT !.gens = WithoutGen(@, k)], "ERROR"),
                        "error",
                        IF Truthy(message) THEN message ELSE "Generation failed.")
        /\ UNCHANGED <<grid, rowNumber, pc, op, reqs, outcome, apiFaults, spreadsheetId,
                       accessToken, tabs, resps, prev>>

\* "Write Data to Sheet": SheetIntegration is rendered while a result is on
\* display, its button is enabled while the sheet is configured and no
\* write is running
SaveButton ==
    /\ ui.hasResult
    /\ spreadsheetId # "" /\ selectedTab # "" /\ rowNumber # ""
    /\ ~ui.isWriting
    /\ handleSave

\* the tab of the connected sheet: row 2 is finished, row 3 is pending
PageGrid == << <<"Topic", "Title">>, <<"a", "t">>, <<"b">> >>

InitPage ==
    /\ grid = PageGrid
    /\ rowNumber = ""
    /\ pc = "idle"
    /\ op = NoOp
    /\ reqs = <<>>
    /\ outcome = NoOutcome
    /\ apiFaults = OneFault
    /\ spreadsheetId = SheetUrl
    /\ accessToken = "ya29.token"
    /\ tabs = SheetTabs
    /\ resps = <<>>
    /\ prev = NoLast
    /\ ui = NoUi

\* The user of the sheet mode: connects the sheet, fetches topics, edits
\* the row number, generates and writes, in any order the page allows.
NextPage ==
    \/ handleFetchTabs
    \/ FetchTabsResponse
    \/ handleFetchTopic
    \/ FetchHeadersResponse
    \/ FetchRowResponse
    \/ FetchDataResponse
    \/ handleGenerate
    \/ GenerateResolve
    \/ GenerateReject
    \/ SaveButton
    \/ WriteHeadersResponse
    \/ WriteBatchResponse
    \/ WritePutResponse
    \/ FinishCall
    \/ setRowNumber

SpecPage == InitPage /\ [][NextPage]_vars

\* the write has been issued and none of its requests is answered yet
WriteIssued == op.call = "writeSeoToSheet" /\ pc = "write_headers"

\* C29: In sheet mode, whatever the order of fetch topic, edit row number,
\* generate and write, at the moment a write is issued the row it is to
\* store into is the row whose topic the result on display was generated
\* from.
C29_WriteTargetsResultRow ==
    WriteIssued => op.row = ui.writeRow

\* C30: At most one generation request is in flight at any time; while a
\* request is in flight the shared status is GENERATING, whatever the
\* fetch-tabs, fetch-topic and write flows do; so the result on display
\* comes from the generation request submitted last.
C30_OneGenerationInFlight ==
    /\ Len(ui.gens) <= 1
    /\ ui.gens # <<>> => ui.status = "GENERATING"
    /\ ui.hasResult => ui.resultGen = ui.genCount

====
